---------------------------- MODULE Spec2Model ----------------------------
(***************************************************************************)
(* Model of the intersection simulation of lidar-point-cloud-viewer:       *)
(*   - the two-phase signal controller   (src/unnamed/part_000)            *)
(*   - the 8-phase signal controller     (src/src/simulation/              *)
(*                                        TrafficLights.ts)                *)
(*   - the actor pool / TrafficEngine    (src/unnamed/part_001 and the two *)
(*                                        revisions kept in src/src/       *)
(*                                        simulation/TrafficEngine.ts)     *)
(*                                                                         *)
(* Units.  Controller time is in integer milliseconds.  Lengths are in     *)
(* hundredths of a world unit; a lane is 40 world units long, so one       *)
(* length unit is also 1/4000 of a lane: progress p (0..1 in the source)   *)
(* is the integer 4000*p, and speed*dt/pathLength, counted in progress     *)
(* units, is the same integer as speed*dt counted in length units.         *)
(* Floating point rounding is not modelled: all quantities are exact.      *)
(***************************************************************************)
EXTENDS Integers, Sequences, FiniteSets, TLC

VARIABLES
    controller,       \* which TrafficLights class is constructed: "two-phase" | "8-phase"
    timer,            \* two-phase TrafficLights.timer (ms)
    sum2,             \* observation: total dt given to the two-phase controller
    last2,            \* observation: the last two-phase update (dt, timer before)
    phaseIndex,       \* 8-phase TrafficLights.phaseIndex (0-based, as in the source)
    phaseElapsedMs,   \* 8-phase TrafficLights.phaseElapsedMs
    sum8,             \* observation: total dt given to the 8-phase controller
    lost8,            \* observation: total overshoot dropped at phase changes
    last8,            \* observation: the last 8-phase update (dt, state before)
    rev,              \* which revision of TrafficEngine is constructed
    entities,         \* TrafficEngine.entities: the pool, slot i of the source at i + 1
    ecall,            \* observation: the last engine call, its arguments, the
                      \* value it returned and the pool before it
    published,        \* the tick driver's React state (SimulationState), with
                      \* the forceLightPhase of the tick that set it
    driver,           \* which useTrafficSimulation runs: "none", "utils" (utils.ts),
                      \* "hook_a" or "hook_b" (hooks/useTrafficSimulation.ts)
    pedSignals        \* the PedestrianSignals object of hook_b

lightVars == <<controller, timer, sum2, last2, phaseIndex, phaseElapsedMs, sum8, lost8, last8>>

engineVars == <<rev, entities, ecall>>

driverVars == <<published, driver, pedSignals>>

vars == <<lightVars, engineVars, driverVars>>

Abs(n) == IF n < 0 THEN -n ELSE n

Max(a, b) == IF a >= b THEN a ELSE b

\* ceil(n / d) for n >= 0, d > 0
CeilDiv(n, d) == (n + d - 1) \div d

(***************************************************************************)
(* Two-phase controller, src/unnamed/part_000                              *)
(***************************************************************************)
GREEN_TIME == 7000

YELLOW_TIME == 2000

RED_TIME == 7000

cycleLength == GREEN_TIME + YELLOW_TIME + RED_TIME

\* update(dt): the timer after the call
TwoPhaseTimerAfter(t, dt) ==
    IF t + dt > cycleLength THEN t + dt - cycleLength ELSE t + dt

TwoPhaseNSPhase(t) ==
    IF t < GREEN_TIME THEN "green"
    ELSE IF t < GREEN_TIME + YELLOW_TIME THEN "yellow"
    ELSE "red"

\* a slip in getEWPhase: the "yellow" case falls through to "green"
TwoPhaseEWPhase_YellowFallsThrough(t) ==
    CASE TwoPhaseNSPhase(t) = "green" -> "red"
      [] TwoPhaseNSPhase(t) = "yellow" -> "green"
      [] TwoPhaseNSPhase(t) = "red" -> "green"

TwoPhaseEWPhase(t) ==
    CASE TwoPhaseNSPhase(t) = "green" -> "red"
      [] TwoPhaseNSPhase(t) = "yellow" -> "red"
      [] TwoPhaseNSPhase(t) = "red" -> "green"

\* getCountdownSecRounded(): Math.ceil(remaining / 1000)
TwoPhaseCountdown(t) ==
    LET remaining ==
            IF t < GREEN_TIME THEN GREEN_TIME - t
            ELSE IF t < GREEN_TIME + YELLOW_TIME THEN GREEN_TIME + YELLOW_TIME - t
            ELSE cycleLength - t
    IN  CeilDiv(remaining, 1000)

(***************************************************************************)
(* 8-phase controller, src/src/simulation/TrafficLights.ts                 *)
(***************************************************************************)
PHASES == <<
    [name |-> "NS_LEFT",    durationSec |-> 4],
    [name |-> "NS_THROUGH", durationSec |-> 10],
    [name |-> "NS_YELLOW",  durationSec |-> 3],
    [name |-> "ALL_RED_1",  durationSec |-> 1],
    [name |-> "EW_LEFT",    durationSec |-> 4],
    [name |-> "EW_THROUGH", durationSec |-> 10],
    [name |-> "EW_YELLOW",  durationSec |-> 3],
    [name |-> "ALL_RED_2",  durationSec |-> 1] >>

\* PHASES[this.phaseIndex]; the source indexes from 0
current(idx) == PHASES[idx + 1]

DurationMs(idx) == current(idx).durationSec * 1000

\* the sum of the durationSec of PHASES[1..n], in ms
RECURSIVE SumDurationsMs(_)
SumDurationsMs(n) == IF n = 0 THEN 0 ELSE PHASES[n].durationSec * 1000 + SumDurationsMs(n - 1)

\* the sum of all phase durations: the length of one cycle, in ms
EightPhaseCycleMs == SumDurationsMs(Len(PHASES))

\* a slip in the wrap: the last phase is never entered
NextPhaseIndex_SkipsLast(idx) == (idx + 1) % (Len(PHASES) - 1)

\* the index that follows idx: (this.phaseIndex + 1) % PHASES.length
NextPhaseIndex(idx) == (idx + 1) % Len(PHASES)

\* an update that never leaves the last phase of the table
EightPhaseAfter_SticksAtLast(idx, el, deltaMs) ==
    IF el + deltaMs >= DurationMs(idx) /\ idx + 1 < Len(PHASES)
    THEN [phaseIndex |-> NextPhaseIndex(idx), phaseElapsedMs |-> 0]
    ELSE [phaseIndex |-> idx,
          phaseElapsedMs |-> IF el + deltaMs >= DurationMs(idx) THEN el ELSE el + deltaMs]

\* an update that advances only when the elapsed time exceeds the duration
EightPhaseAfter_AdvancesLate(idx, el, deltaMs) ==
    IF el + deltaMs > DurationMs(idx)
    THEN [phaseIndex |-> NextPhaseIndex(idx), phaseElapsedMs |-> 0]
    ELSE [phaseIndex |-> idx, phaseElapsedMs |-> el + deltaMs]

\* an update that carries the overshoot into the next phase
EightPhaseAfter_CarriesOvershoot(idx, el, deltaMs) ==
    IF el + deltaMs >= DurationMs(idx)
    THEN [phaseIndex |-> NextPhaseIndex(idx),
          phaseElapsedMs |-> el + deltaMs - DurationMs(idx)]
    ELSE [phaseIndex |-> idx, phaseElapsedMs |-> el + deltaMs]

\* update(deltaMs): phaseIndex and phaseElapsedMs after the call
EightPhaseAfter(idx, el, deltaMs) ==
    IF el + deltaMs >= DurationMs(idx)
    THEN [phaseIndex |-> NextPhaseIndex(idx), phaseElapsedMs |-> 0]
    ELSE [phaseIndex |-> idx, phaseElapsedMs |-> el + deltaMs]

\* Math.round(x) for x = n/1000, n >= 0: floor(x + 0.5)
RoundMs(n) == (n + 500) \div 1000

\* getCountdownSecRounded(): Math.max(0, Math.round(durationSec - phaseElapsedMs/1000))
EightPhaseCountdown(idx, el) ==
    LET remainingMs == DurationMs(idx) - el
    IN  IF remainingMs < 0 THEN 0 ELSE Max(0, RoundMs(remainingMs))

EightPhaseNSPhase(idx) ==
    CASE current(idx).name \in {"NS_LEFT", "NS_THROUGH"} -> "green"
      [] current(idx).name = "NS_YELLOW" -> "yellow"
      [] OTHER -> "red"

EightPhaseEWPhase(idx) ==
    CASE current(idx).name \in {"EW_LEFT", "EW_THROUGH"} -> "green"
      [] current(idx).name = "EW_YELLOW" -> "yellow"
      [] OTHER -> "red"

EightPhaseNSLeftPhase(idx) ==
    CASE current(idx).name = "NS_LEFT" -> "green"
      [] current(idx).name = "NS_YELLOW" -> "yellow"
      [] OTHER -> "off"

EightPhaseEWLeftPhase(idx) ==
    CASE current(idx).name = "EW_LEFT" -> "green"
      [] current(idx).name = "EW_YELLOW" -> "yellow"
      [] OTHER -> "off"

\* a pedestrian head that follows the main head: walk through the whole
\* green, the protected left included
EightPhasePedNSPhase_WalkOnLeft(idx) ==
    CASE EightPhaseNSPhase(idx) = "green" -> "walk"
      [] EightPhaseNSPhase(idx) = "yellow" -> "hand-blink"
      [] OTHER -> "hand"

EightPhasePedNSPhase(idx) ==
    CASE current(idx).name = "NS_THROUGH" -> "walk"
      [] current(idx).name = "NS_YELLOW" -> "hand-blink"
      [] OTHER -> "hand"

EightPhasePedEWPhase(idx) ==
    CASE current(idx).name = "EW_THROUGH" -> "walk"
      [] current(idx).name = "EW_YELLOW" -> "hand-blink"
      [] OTHER -> "hand"

(***************************************************************************)
(* Inputs and bounds of the controller runs                                *)
(***************************************************************************)
\* update(dt) calls are followed until the dt given so far exceeds
\* MaxCycles cycles of the controller
MaxCycles == 1

\* dt values (ms) given to the two-phase controller
TwoPhaseDts == {0, 1, 2, 1000, 2000, 7000, 7999, 9000, 16000, 40000}

\* dt values (ms) given to the 8-phase controller
EightPhaseDts == {0, 400, 1000, 3000, 4000, 10000, 36000}

(***************************************************************************)
(* Controller actions                                                      *)
(***************************************************************************)
\* the controller variables right after construction
FreshLights ==
    /\ timer = 0
    /\ sum2 = 0
    /\ last2 = [dt |-> 0, timer |-> 0, calls |-> 0]
    /\ phaseIndex = 0
    /\ phaseElapsedMs = 0
    /\ sum8 = 0
    /\ lost8 = 0
    /\ last8 = [dt |-> 0, phaseIndex |-> 0, phaseElapsedMs |-> 0, calls |-> 0]

\* no engine is constructed in the runs of the controllers alone
NoEngine ==
    /\ rev = "none"
    /\ entities = <<>>
    /\ ecall = [op |-> "none"]

\* PedestrianSignals field initialisers
FreshPedestrianSignals ==
    [pedNS |-> "dont", pedEW |-> "dont", nsTimer |-> 0, ewTimer |-> 0]

\* useState's initial SimulationState of the tick driver (utils.ts:100-111);
\* force is the forceLightPhase of the tick that published the state
InitialState ==
    [entities |-> <<>>, NS |-> "green", EW |-> "red", countdown |-> 0,
     NSLeft |-> "off", EWLeft |-> "off", pedNS |-> "hand", pedEW |-> "hand",
     force |-> "auto"]

\* no tick driver runs: nothing is published after the initial state
NoDriver ==
    /\ driver = "none"
    /\ published = InitialState
    /\ pedSignals = FreshPedestrianSignals

InitLights ==
    /\ controller \in {"two-phase", "8-phase"}
    /\ FreshLights
    /\ NoEngine
    /\ NoDriver

\* part_000 TrafficLights.update(dt), on the controller's own variables
TwoPhaseUpdateCore(dt) ==
    /\ timer' = TwoPhaseTimerAfter(timer, dt)
    /\ sum2' = sum2 + dt
    /\ last2' = [dt |-> dt, timer |-> timer, calls |-> 1]

\* TrafficLights.ts TrafficLights.update(deltaMs), on the controller's own variables
EightPhaseUpdateCore(deltaMs) ==
    LET after == EightPhaseAfter(phaseIndex, phaseElapsedMs, deltaMs)
        advanced == after.phaseIndex # phaseIndex
    IN  /\ phaseIndex' = after.phaseIndex
        /\ phaseElapsedMs' = after.phaseElapsedMs
        /\ sum8' = sum8 + deltaMs
        /\ lost8' = lost8 + (IF advanced
                             THEN phaseElapsedMs + deltaMs - DurationMs(phaseIndex)
                             ELSE phaseElapsedMs + deltaMs - after.phaseElapsedMs)
        /\ last8' = [dt |-> deltaMs, phaseIndex |-> phaseIndex,
                     phaseElapsedMs |-> phaseElapsedMs, calls |-> 1]

TwoPhaseUpdate(dt) ==
    /\ controller = "two-phase"
    /\ sum2 <= MaxCycles * cycleLength
    /\ TwoPhaseUpdateCore(dt)
    /\ UNCHANGED <<controller, phaseIndex, phaseElapsedMs, sum8, lost8, last8>>
    /\ UNCHANGED <<engineVars, driverVars>>

EightPhaseUpdate(deltaMs) ==
    /\ controller = "8-phase"
    /\ sum8 <= MaxCycles * EightPhaseCycleMs
    /\ EightPhaseUpdateCore(deltaMs)
    /\ UNCHANGED <<controller, timer, sum2, last2>>
    /\ UNCHANGED <<engineVars, driverVars>>

NextTwoPhase == \E dt \in TwoPhaseDts : TwoPhaseUpdate(dt)

NextEightPhase == \E dt \in EightPhaseDts : EightPhaseUpdate(dt)

NextLights == NextTwoPhase \/ NextEightPhase

\* either controller, as the tick driver constructs one of them
SpecLights == InitLights /\ [][NextLights]_vars

\* the two-phase controller alone
InitTwoPhase == InitLights /\ controller = "two-phase"

SpecTwoPhase == InitTwoPhase /\ [][NextTwoPhase]_vars

\* the 8-phase controller alone
InitEightPhase == InitLights /\ controller = "8-phase"

SpecEightPhase == InitEightPhase /\ [][NextEightPhase]_vars

\* Endless runs of a controller: the frame loop calls update on every
\* frame for as long as the scene is mounted, so the update step is taken
\* again and again (weak fairness).  The observation counters stop
\* counting at cap, so that the runs are over finitely many states.
Saturated(n, cap) == IF n > cap THEN cap ELSE n

\* part_000 update(dt) in a run that calls it with one fixed dt
TwoPhaseRepeat(dt) ==
    /\ controller = "two-phase"
    /\ last2.calls = 0 \/ last2.dt = dt
    /\ timer' = TwoPhaseTimerAfter(timer, dt)
    /\ last2' = [dt |-> dt, timer |-> timer, calls |-> 1]
    /\ sum2' = Saturated(sum2 + dt, MaxCycles * cycleLength)
    /\ UNCHANGED <<controller, phaseIndex, phaseElapsedMs, sum8, lost8, last8>>
    /\ UNCHANGED <<engineVars, driverVars>>

\* the fixed dt of a run, all positive: below, at a divisor of and equal to
\* the cycle length
FixedDts == {500, 1000, 2000, 7000, 16000}

NextTwoPhaseForever == \E dt \in FixedDts : TwoPhaseRepeat(dt)

SpecTwoPhaseForever ==
    InitTwoPhase /\ [][NextTwoPhaseForever]_vars /\ WF_vars(NextTwoPhaseForever)

\* TrafficLights.ts update(deltaMs) in an endless run, on the controller's
\* own variables
EightPhaseRepeatCore(deltaMs) ==
    LET after == EightPhaseAfter(phaseIndex, phaseElapsedMs, deltaMs)
        dropped == phaseElapsedMs + deltaMs
                     - (IF after.phaseIndex # phaseIndex
                        THEN DurationMs(phaseIndex) ELSE after.phaseElapsedMs)
    IN  /\ controller = "8-phase"
        /\ phaseIndex' = after.phaseIndex
        /\ phaseElapsedMs' = after.phaseElapsedMs
        /\ last8' = [dt |-> deltaMs, phaseIndex |-> phaseIndex,
                     phaseElapsedMs |-> phaseElapsedMs, calls |-> 1]
        /\ sum8' = Saturated(sum8 + deltaMs, MaxCycles * EightPhaseCycleMs)
        /\ lost8' = Saturated(lost8 + dropped, MaxCycles * EightPhaseCycleMs)
        /\ UNCHANGED <<controller, timer, sum2, last2>>

\* TrafficLights.ts update(deltaMs) in an endless run of the controller alone
EightPhaseRepeat(deltaMs) ==
    /\ EightPhaseRepeatCore(deltaMs)
    /\ UNCHANGED <<engineVars, driverVars>>

\* deltaMs of the calls of an endless run, all positive
ForeverDts == {1000, 3000, 36000}

NextEightPhaseForever == \E deltaMs \in ForeverDts : EightPhaseRepeat(deltaMs)

SpecEightPhaseForever ==
    InitEightPhase /\ [][NextEightPhaseForever]_vars /\ WF_vars(NextEightPhaseForever)

(***************************************************************************)
(* Actor pool / TrafficEngine                                              *)
(*                                                                         *)
(* Three revisions of the class are kept in the repository:                *)
(*   "part_001"  src/unnamed/part_001                 world-space stop     *)
(*               line with a 0.01 margin, speed jitter, pedestrians        *)
(*               despawn beyond +/-25                                      *)
(*   "engine_a"  src/src/simulation/TrafficEngine.ts:1-305   world-space   *)
(*               stop line, pedestrians turn round at +/-22                *)
(*   "engine_b"  src/src/simulation/TrafficEngine.ts:307-602  stop below   *)
(*               progress 0.4, pedestrians turn round at +/-22             *)
(* rev names the revision that is constructed; it never changes.           *)
(***************************************************************************)
Revisions == {"part_001", "engine_a", "engine_b"}

\* ROAD_EXTENT = 20 world units
ROAD_EXTENT == 2000

\* pathLength = ROAD_EXTENT * 2: the lane length, which is also progress 1.0
pathLength == ROAD_EXTENT * 2

\* INTERSECTION_SIZE = 8 world units
INTERSECTION_SIZE == 800

\* STOP_WORLD / STOP_LINE = INTERSECTION_SIZE / 2
STOP_WORLD == INTERSECTION_SIZE \div 2

\* the 0.01 added to STOP_WORLD in part_001's wouldEnterIntersection
STOP_MARGIN == 1

\* stopThreshold = 0.4 of engine_b
stopThreshold == 1600

\* minSpacing = 0.06
minSpacing == 240

\* LANE_OFFSETS = [-1.5, -0.5, 0.5, 1.5]
LANE_OFFSETS == <<-150, -50, 50, 150>>

\* PATHS[pathId + 1] = <<start, end>>; the source indexes lanes from 0
PATHS == <<
    << <<LANE_OFFSETS[1], 0, -ROAD_EXTENT>>, <<LANE_OFFSETS[1], 0, ROAD_EXTENT>> >>,
    << <<LANE_OFFSETS[2], 0, -ROAD_EXTENT>>, <<LANE_OFFSETS[2], 0, ROAD_EXTENT>> >>,
    << <<LANE_OFFSETS[3], 0, ROAD_EXTENT>>, <<LANE_OFFSETS[3], 0, -ROAD_EXTENT>> >>,
    << <<LANE_OFFSETS[4], 0, ROAD_EXTENT>>, <<LANE_OFFSETS[4], 0, -ROAD_EXTENT>> >>,
    << <<-ROAD_EXTENT, 0, LANE_OFFSETS[3]>>, <<ROAD_EXTENT, 0, LANE_OFFSETS[3]>> >>,
    << <<-ROAD_EXTENT, 0, LANE_OFFSETS[4]>>, <<ROAD_EXTENT, 0, LANE_OFFSETS[4]>> >>,
    << <<ROAD_EXTENT, 0, LANE_OFFSETS[1]>>, <<-ROAD_EXTENT, 0, LANE_OFFSETS[1]>> >>,
    << <<ROAD_EXTENT, 0, LANE_OFFSETS[2]>>, <<-ROAD_EXTENT, 0, LANE_OFFSETS[2]>> >> >>

\* the lane ids PATHS defines
Lanes == 0 .. (Len(PATHS) - 1)

\* BASE_SPEEDS / SPEEDS, world units per second, in model units
BASE_SPEEDS == [Car |-> 800, Truck |-> 600, Bicycle |-> 700, Pedestrian |-> 200]

\* BASE_SCALES[type] / SCALES[type]: scales are kept symbolically, as the base
\* type and the variant getVariantScale picked
BaseScale(type) == [base |-> type, variant |-> "base"]

\* `pool-${i}`
PoolId(i) == <<"pool", i>>

\* the value spawn returns when the pool is exhausted
Null == <<"null", 0>>

\* the outcome of a spawn that ends in an exception (PATHS[pathId] undefined)
Thrown == <<"TypeError", 0>>

\* the value of a call that returns nothing
Void == <<"undefined", 0>>

\* constructor: the slot pushed for index i (0-based)
PoolSlot(i) ==
    [id |-> PoolId(i), type |-> "Car", position |-> <<0, 0, 0>>, dir |-> <<0, 0, 1>>,
     speed |-> 0, active |-> FALSE, pathId |-> 0, progress |-> 0,
     scale |-> BaseScale("Car"), color |-> 0]

\* pointOnPath(pathId, progress): a + (b - a) * progress
pointOnPath(pathId, progress) ==
    LET a == PATHS[pathId + 1][1]
        b == PATHS[pathId + 1][2]
    IN  << a[1] + ((b[1] - a[1]) * progress) \div pathLength,
           a[2] + ((b[2] - a[2]) * progress) \div pathLength,
           a[3] + ((b[3] - a[3]) * progress) \div pathLength >>

\* tangentOnPath(pathId): (b - a) / |b - a|.  Every lane is parallel to an
\* axis, so |b - a| is the sum of the absolute differences.
tangentOnPath(pathId) ==
    LET a == PATHS[pathId + 1][1]
        b == PATHS[pathId + 1][2]
        dx == b[1] - a[1]
        dy == b[2] - a[2]
        dz == b[3] - a[3]
        n == Abs(dx) + Abs(dy) + Abs(dz)
        len == IF n = 0 THEN 1 ELSE n
    IN  << dx \div len, dy \div len, dz \div len >>

\* getVariantScale(type) of part_001; r is the Math.random() draw, in 1/1000
getVariantScale(type, r) ==
    CASE type = "Car" -> [base |-> type, variant |-> IF r < 500 THEN "sedan" ELSE "suv"]
      [] type = "Truck" -> [base |-> type, variant |-> IF r < 500 THEN "semi" ELSE "box"]
      [] OTHER -> [base |-> type, variant |-> <<"jitter", r>>]

\* getVariantSpeed(type, override) of part_001: base * (0.8 + Math.random() * 0.4);
\* r is the draw in 1/1000, override is <<>> or <<speed>>
getVariantSpeed(type, override, r) ==
    LET base == IF override = <<>> THEN BASE_SPEEDS[type] ELSE override[1]
    IN  (base * (800 + (r * 400) \div 1000)) \div 1000

\* the speed spawn stores
SpawnSpeed(revision, type, override, r) ==
    IF revision = "part_001" THEN getVariantSpeed(type, override, r)
    ELSE IF override = <<>> THEN BASE_SPEEDS[type] ELSE override[1]

\* the scale spawn stores
SpawnScale(revision, type, r) ==
    IF revision = "part_001" THEN getVariantScale(type, r) ELSE BaseScale(type)

\* Math.floor(Math.random() * 5); r is the draw in 1/1000
SpawnColor(r) == (r * 5) \div 1000

\* where spawn puts a pedestrian: <<position, dir>>.  part_001 draws the
\* axis, the sidewalk and the end it starts from (r.axis, r.side, r.start:
\* whether each Math.random() was < 0.5); engine_a and engine_b draw one of
\* four sides (r.side4 = Math.floor(Math.random() * 4)).
PedestrianStart(revision, r) ==
    IF revision = "part_001"
    THEN LET side == IF r.side THEN -600 ELSE 600
             start == IF r.start THEN -ROAD_EXTENT - 100 ELSE ROAD_EXTENT + 100
             d == IF start < 0 THEN 1 ELSE -1
         IN  IF r.axis
             THEN << <<side, 0, start>>, <<0, 0, d>> >>
             ELSE << <<start, 0, side>>, <<d, 0, 0>> >>
    ELSE LET offset == ROAD_EXTENT - 200
         IN  CASE r.side4 = 0 -> << <<-offset, 0, 1000>>, <<1, 0, 0>> >>
               [] r.side4 = 1 -> << <<1000, 0, offset>>, <<0, 0, -1>> >>
               [] r.side4 = 2 -> << <<offset, 0, -1000>>, <<-1, 0, 0>> >>
               [] OTHER -> << <<-1000, 0, -offset>>, <<0, 0, 1>> >>

\* a pool that hands out each slot once: a slot counts as free only while it
\* still carries the id the constructor gave it
FirstInactive_NeverReuses(ents) ==
    IF \E i \in 1..Len(ents) : ~ents[i].active /\ ents[i].id = PoolId(i - 1)
    THEN CHOOSE i \in 1..Len(ents) :
            /\ ~ents[i].active /\ ents[i].id = PoolId(i - 1)
            /\ \A j \in 1..(i - 1) : ents[j].active \/ ents[j].id # PoolId(j - 1)
    ELSE 0

\* this.entities.find((e) => !e.active): the index of the first inactive
\* slot, 0 when there is none
FirstInactive(ents) ==
    IF \E i \in 1..Len(ents) : ~ents[i].active
    THEN CHOOSE i \in 1..Len(ents) :
            /\ ~ents[i].active
            /\ \A j \in 1..(i - 1) : ents[j].active
    ELSE 0

\* a spawn that grows the pool when no slot is free
SpawnResult_Grows(revision, ents, opts, r) ==
    LET type == IF opts.type = "none" THEN "Car" ELSE opts.type
        pathId == IF opts.pathId = <<>> THEN r.lane ELSE opts.pathId[1]
        lane == IF pathId \in Lanes THEN pathId ELSE 0
        slot == [PoolSlot(Len(ents)) EXCEPT
                    !.id = r.id, !.type = type, !.pathId = lane,
                    !.progress = r.progress,
                    !.position = pointOnPath(lane, r.progress),
                    !.dir = tangentOnPath(lane),
                    !.speed = SpawnSpeed(revision, type, opts.speed, r.factor),
                    !.active = TRUE]
    IN  <<Append(ents, slot), r.id>>

\* a spawn that, on a full pool, recycles the first slot instead of
\* returning null
SpawnResult_RecyclesFirst(revision, ents, opts, r) ==
    LET free == {k \in 1..Len(ents) : ~ents[k].active}
        i == IF free = {} THEN 1 ELSE CHOOSE k \in free : \A j \in free : k <= j
        type == IF opts.type = "none" THEN "Car" ELSE opts.type
        pathId == IF opts.pathId = <<>> THEN r.lane ELSE opts.pathId[1]
        lane == IF pathId \in Lanes THEN pathId ELSE 0
        ped == PedestrianStart(revision, r)
    IN  << [ents EXCEPT ![i] = [@ EXCEPT
                !.id = r.id, !.type = type,
                !.pathId = IF type = "Pedestrian" THEN -1 ELSE lane,
                !.progress = IF type = "Pedestrian" THEN 0 ELSE r.progress,
                !.position = IF type = "Pedestrian" THEN ped[1]
                             ELSE pointOnPath(lane, r.progress),
                !.dir = IF type = "Pedestrian" THEN ped[2] ELSE tangentOnPath(lane),
                !.speed = SpawnSpeed(revision, type, opts.speed, r.factor),
                !.active = TRUE]],
           r.id >>

\* a spawn that clamps a lane outside 0..7 to the nearest lane
SpawnResult_ClampsLane(revision, ents, opts, r) ==
    LET i == IF \E k \in 1..Len(ents) : ~ents[k].active
             THEN CHOOSE k \in 1..Len(ents) :
                     ~ents[k].active /\ \A j \in 1..(k - 1) : ents[j].active
             ELSE 0
        type == IF opts.type = "none" THEN "Car" ELSE opts.type
        asked == IF opts.pathId = <<>> THEN r.lane ELSE opts.pathId[1]
        lane == IF asked < 0 THEN 0
                ELSE IF asked > Len(PATHS) - 1 THEN Len(PATHS) - 1 ELSE asked
    IN  IF i = 0 THEN <<ents, Null>>
        ELSE << [ents EXCEPT ![i] = [@ EXCEPT
                    !.id = r.id, !.type = type, !.pathId = lane,
                    !.progress = r.progress,
                    !.position = pointOnPath(lane, r.progress),
                    !.dir = tangentOnPath(lane),
                    !.speed = SpawnSpeed(revision, type, opts.speed, r.factor),
                    !.active = TRUE]],
                r.id >>

\* spawn(opts): <<the pool after the call, the value returned>>.
\* opts = [type |-> a type or "none", pathId |-> <<>> or <<n>>, speed |-> <<>> or <<v>>];
\* r holds the Math.random() draws of the call.
SpawnResult(revision, ents, opts, r) ==
    LET i == FirstInactive(ents)
        type == IF opts.type = "none" THEN "Car" ELSE opts.type
        fresh == [ents[i] EXCEPT
                     !.id = r.id,
                     !.type = type,
                     !.scale = SpawnScale(revision, type, r.scale),
                     !.color = SpawnColor(r.color),
                     !.speed = SpawnSpeed(revision, type, opts.speed, r.factor)]
        ped == PedestrianStart(revision, r)
        pathId == IF opts.pathId = <<>> THEN r.lane ELSE opts.pathId[1]
        onLane == [fresh EXCEPT !.pathId = pathId, !.progress = r.progress]
    IN  IF i = 0 THEN <<ents, Null>>
        ELSE IF type = "Pedestrian"
        THEN << [ents EXCEPT ![i] = [fresh EXCEPT !.position = ped[1], !.dir = ped[2],
                                                 !.pathId = -1, !.progress = 0,
                                                 !.active = TRUE]],
                r.id >>
        ELSE IF pathId \notin Lanes
        THEN \* pointOnPath destructures PATHS[pathId] = undefined and throws
             \* after id, type, scale, color, speed, pathId and progress are set
             << [ents EXCEPT ![i] = onLane], Thrown >>
        ELSE << [ents EXCEPT ![i] = [onLane EXCEPT
                                        !.position = pointOnPath(pathId, r.progress),
                                        !.dir = tangentOnPath(pathId),
                                        !.active = TRUE]],
                r.id >>

\* despawn(id): the pool after the call
DespawnResult(ents, id) ==
    IF \E i \in 1..Len(ents) : ents[i].id = id
    THEN LET i == CHOOSE k \in 1..Len(ents) :
                     /\ ents[k].id = id
                     /\ \A j \in 1..(k - 1) : ents[j].id # id
         IN  [ents EXCEPT ![i].active = FALSE]
    ELSE ents

\* a reset that frees the slots but leaves the kinematic fields as they were
ResetResult_KeepsProgress(ents) ==
    [i \in 1..Len(ents) |-> [ents[i] EXCEPT !.active = FALSE]]

\* reset(): the pool after the call
ResetResult(ents) ==
    [i \in 1..Len(ents) |-> [ents[i] EXCEPT !.active = FALSE, !.progress = 0, !.speed = 0]]

\* a snapshot that hands out the whole pool (what getPool() returns)
getActiveEntities_WholePool(ents) == ents

\* getActiveEntities(): the active slots, in pool order
getActiveEntities(ents) == SelectSeq(ents, LAMBDA e : e.active)

\* speed * dt, with the speed in model units per second and dt in ms
Travel(speed, dt) == (speed * dt) \div 1000

\* ent.speed || BASE_SPEEDS[ent.type]
EffectiveSpeed(ent) == IF ent.speed # 0 THEN ent.speed ELSE BASE_SPEEDS[ent.type]

\* trafficLights?.NS ?? true / trafficLights?.EW ?? true for a lane or a
\* pedestrian of the NS axis (isNS) or of the EW axis; lights is <<>> or <<[NS, EW]>>
LightIsGreen(lights, isNS) ==
    IF lights = <<>> THEN TRUE
    ELSE IF isNS THEN lights[1].NS ELSE lights[1].EW

\* the active non-pedestrian slots (indices) on a lane
LaneMembers(ents, lane) ==
    {i \in 1..Len(ents) :
        ents[i].active /\ ents[i].pathId = lane /\ ents[i].type # "Pedestrian"}

\* a sort that puts actors of equal progress in reverse pool order
RECURSIVE SortByProgress_TiesReversed(_, _)
SortByProgress_TiesReversed(ents, S) ==
    IF S = {} THEN <<>>
    ELSE LET m == CHOOSE i \in S : \A j \in S :
                      \/ ents[i].progress < ents[j].progress
                      \/ (ents[i].progress = ents[j].progress /\ i >= j)
         IN  <<m>> \o SortByProgress_TiesReversed(ents, S \ {m})

\* .filter(...).sort((a, b) => a.progress - b.progress): the slots of S by
\* ascending progress; Array.prototype.sort is stable, so equal progress
\* keeps pool order
RECURSIVE SortByProgress(_, _)
SortByProgress(ents, S) ==
    IF S = {} THEN <<>>
    ELSE LET m == CHOOSE i \in S : \A j \in S :
                      \/ ents[i].progress < ents[j].progress
                      \/ (ents[i].progress = ents[j].progress /\ i <= j)
         IN  <<m>> \o SortByProgress(ents, S \ {m})

\* onLane.find((v) => v.progress > ent.progress): the first slot of the
\* sorted list whose progress, as it is now, exceeds that of slot i; 0 if none
Ahead(ents, order, i) ==
    LET ks == {k \in 1..Len(order) : ents[order[k]].progress > ents[i].progress}
    IN  IF ks = {} THEN 0
        ELSE order[CHOOSE k \in ks : \A k2 \in ks : k <= k2]

\* a stop-line test that holds on green as on red
HeldAtStopLine_IgnoresGreen(revision, ent, lane, dt, lights) ==
    LET speed == EffectiveSpeed(ent)
        isNSLane == lane < 4
        coord == IF isNSLane THEN ent.position[3] ELSE ent.position[1]
        d == IF isNSLane THEN ent.dir[3] ELSE ent.dir[1]
        nextCoord == coord + d * Travel(speed, dt)
    IN  /\ Abs(coord) > STOP_WORLD
        /\ Abs(nextCoord) <= STOP_WORLD + STOP_MARGIN

\* a stop-line test that lets a step through when it lands exactly on the
\* edge of the centre square
HeldAtStopLine_StrictlyInside(revision, ent, lane, dt, lights) ==
    LET speed == EffectiveSpeed(ent)
        isNSLane == lane < 4
        coord == IF isNSLane THEN ent.position[3] ELSE ent.position[1]
        d == IF isNSLane THEN ent.dir[3] ELSE ent.dir[1]
        nextCoord == coord + d * Travel(speed, dt)
    IN  /\ ~LightIsGreen(lights, isNSLane)
        /\ Abs(coord) > STOP_WORLD
        /\ Abs(nextCoord) < STOP_WORLD

\* whether the stop-line logic holds the vehicle of slot i in this call
HeldAtStopLine(revision, ent, lane, dt, lights) ==
    LET speed == EffectiveSpeed(ent)
        isNSLane == lane < 4
        lightIsGreen == LightIsGreen(lights, isNSLane)
        coord == IF isNSLane THEN ent.position[3] ELSE ent.position[1]
        d == IF isNSLane THEN ent.dir[3] ELSE ent.dir[1]
        nextCoord == coord + d * Travel(speed, dt)
        beforeIntersection == Abs(coord) > STOP_WORLD
    IN  CASE revision = "part_001" ->
                /\ ~lightIsGreen
                /\ beforeIntersection
                /\ Abs(nextCoord) <= STOP_WORLD + STOP_MARGIN
          [] revision = "engine_a" ->
                /\ ~lightIsGreen
                /\ beforeIntersection
                /\ Abs(nextCoord) <= STOP_WORLD
          [] OTHER ->
                /\ ~lightIsGreen
                /\ ent.progress < stopThreshold

\* a spacing clamp without the Math.max floor: it puts the follower
\* minSpacing behind the vehicle ahead, even when that is behind itself
SpacingClamp_NoFloor(ents, order, i, next) ==
    LET a == Ahead(ents, order, i)
    IN  IF a # 0 /\ ents[a].progress - next < minSpacing
        THEN ents[a].progress - minSpacing
        ELSE next

\* the spacing clamp: the candidate after "Enforce minimum spacing along lane"
SpacingClamp(ents, order, i, next) ==
    LET a == Ahead(ents, order, i)
    IN  IF a # 0 /\ ents[a].progress - next < minSpacing
        THEN Max(ents[i].progress, ents[a].progress - minSpacing)
        ELSE next

\* a wrap that restarts the lane at its first point, dropping the overshoot
WrapProgress_ToZero(next) == IF next > pathLength THEN 0 ELSE next

\* "Wrap around at end of lane": if (next > 1) next -= 1
WrapProgress(next) == IF next > pathLength THEN next - pathLength ELSE next

\* an iteration that stores the new progress and leaves the cached
\* position as it was
StepVehicle_StalePosition(revision, ents, order, i, lane, dt, lights) ==
    LET ent == ents[i]
        speed == EffectiveSpeed(ent)
        candidate == ent.progress + Travel(speed, dt)
        gated == IF HeldAtStopLine(revision, ent, lane, dt, lights)
                 THEN ent.progress ELSE candidate
        next == WrapProgress(SpacingClamp(ents, order, i, gated))
    IN  IF revision # "engine_a" /\ speed <= 0
        THEN ent
        ELSE [ent EXCEPT !.progress = next, !.dir = tangentOnPath(lane)]

\* an iteration that takes a bicycle off the lane at its end instead of
\* wrapping it
StepVehicle_BicycleDespawns(revision, ents, order, i, lane, dt, lights) ==
    LET ent == ents[i]
        speed == EffectiveSpeed(ent)
        candidate == ent.progress + Travel(speed, dt)
        gated == IF HeldAtStopLine(revision, ent, lane, dt, lights)
                 THEN ent.progress ELSE candidate
        clamped == SpacingClamp(ents, order, i, gated)
        next == WrapProgress(clamped)
    IN  IF revision # "engine_a" /\ speed <= 0
        THEN ent
        ELSE IF ent.type = "Bicycle" /\ clamped > pathLength
        THEN [ent EXCEPT !.active = FALSE]
        ELSE [ent EXCEPT !.progress = next,
                         !.position = pointOnPath(lane, next),
                         !.dir = tangentOnPath(lane)]

\* one iteration of "for (const ent of onLane)": slot i after it
StepVehicle(revision, ents, order, i, lane, dt, lights) ==
    LET ent == ents[i]
        speed == EffectiveSpeed(ent)
        candidate == ent.progress + Travel(speed, dt)
        gated == IF HeldAtStopLine(revision, ent, lane, dt, lights)
                 THEN ent.progress ELSE candidate
        next == WrapProgress(SpacingClamp(ents, order, i, gated))
    IN  IF revision # "engine_a" /\ speed <= 0
        THEN ent     \* if (speed <= 0) continue;  (not in engine_a)
        ELSE [ent EXCEPT !.progress = next,
                         !.position = pointOnPath(lane, next),
                         !.dir = tangentOnPath(lane)]

\* the loop over one lane's sorted list, from its k-th element on
RECURSIVE UpdateLaneFrom(_, _, _, _, _, _, _)
UpdateLaneFrom(revision, ents, order, k, lane, dt, lights) ==
    IF k > Len(order) THEN ents
    ELSE UpdateLaneFrom(revision,
                        [ents EXCEPT ![order[k]] =
                            StepVehicle(revision, ents, order, order[k], lane, dt, lights)],
                        order, k + 1, lane, dt, lights)

\* "for (let lane = 0; lane < PATHS.length; lane++)", from lane on
RECURSIVE UpdateLanesFrom(_, _, _, _, _)
UpdateLanesFrom(revision, ents, lane, dt, lights) ==
    IF lane >= Len(PATHS) THEN ents
    ELSE UpdateLanesFrom(revision,
                         UpdateLaneFrom(revision, ents,
                                        SortByProgress(ents, LaneMembers(ents, lane)),
                                        1, lane, dt, lights),
                         lane + 1, dt, lights)

\* LIMIT = ROAD_EXTENT + 5 of part_001: pedestrians beyond it are despawned
PedestrianDespawnLimit == ROAD_EXTENT + 500

\* limit = ROAD_EXTENT + 2 of engine_a and engine_b: pedestrians turn round there
PedestrianTurnLimit == ROAD_EXTENT + 200

\* an iteration of part_001 that moves the pedestrian and never takes it
\* out of the pool
StepPedestrianDespawning_KeepsActive(ent, dt, lights) ==
    LET speed == EffectiveSpeed(ent)
    IN  [ent EXCEPT !.position = <<ent.position[1] + ent.dir[1] * Travel(speed, dt),
                                   ent.position[2],
                                   ent.position[3] + ent.dir[3] * Travel(speed, dt)>>]

\* one iteration of the pedestrian loop of part_001
StepPedestrianDespawning(ent, dt, lights) ==
    LET speed == EffectiveSpeed(ent)
        x == ent.position[1]
        z == ent.position[3]
        dx == ent.dir[1]
        dz == ent.dir[3]
        isNS == Abs(dz) > Abs(dx)
        isBeforeIntersection == IF isNS THEN Abs(z) > STOP_WORLD ELSE Abs(x) > STOP_WORLD
        stepX == x + dx * Travel(speed, dt)
        stepZ == z + dz * Travel(speed, dt)
        trafficIsWalk == LightIsGreen(lights, isNS)
        willEnter == IF isNS THEN Abs(stepZ) <= STOP_WORLD + STOP_MARGIN
                     ELSE Abs(stepX) <= STOP_WORLD + STOP_MARGIN
        wait == ~trafficIsWalk /\ isBeforeIntersection /\ willEnter
        nextX == IF wait THEN x ELSE stepX
        nextZ == IF wait THEN z ELSE stepZ
        out == \/ nextX > PedestrianDespawnLimit \/ nextX < -PedestrianDespawnLimit
               \/ nextZ > PedestrianDespawnLimit \/ nextZ < -PedestrianDespawnLimit
    IN  [ent EXCEPT !.position = <<nextX, ent.position[2], nextZ>>,
                    !.active = IF out THEN FALSE ELSE ent.active]

\* an iteration that turns the pedestrian round and stores the step as well
StepPedestrianTurning_StepsOut(revision, ent, dt) ==
    LET dx == ent.dir[1]
        dz == ent.dir[3]
        step == Travel(IF revision = "engine_a" THEN ent.speed ELSE EffectiveSpeed(ent), dt)
        x == ent.position[1] + dx * step
        z == ent.position[3] + dz * step
        out == \/ x > PedestrianTurnLimit \/ x < -PedestrianTurnLimit
               \/ z > PedestrianTurnLimit \/ z < -PedestrianTurnLimit
    IN  [ent EXCEPT !.position = <<x, ent.position[2], z>>,
                    !.dir = IF out THEN <<-dx, 0, -dz>> ELSE ent.dir]

\* one iteration of the pedestrian loop of engine_a (step = ent.speed * dt)
\* and engine_b (step = (ent.speed || SPEEDS.Pedestrian) * dt)
StepPedestrianTurning(revision, ent, dt) ==
    LET dx == ent.dir[1]
        dz == ent.dir[3]
        step == Travel(IF revision = "engine_a" THEN ent.speed ELSE EffectiveSpeed(ent), dt)
        x == ent.position[1] + dx * step
        z == ent.position[3] + dz * step
        out == \/ x > PedestrianTurnLimit \/ x < -PedestrianTurnLimit
               \/ z > PedestrianTurnLimit \/ z < -PedestrianTurnLimit
    IN  IF out THEN [ent EXCEPT !.dir = <<-dx, 0, -dz>>]
        ELSE [ent EXCEPT !.position = <<x, ent.position[2], z>>]

\* the pedestrian loop: every active pedestrian, in pool order (the
\* iterations read and write their own slot only)
UpdatePedestrians(revision, ents, dt, lights) ==
    [i \in 1..Len(ents) |->
        IF ~ents[i].active \/ ents[i].type # "Pedestrian" THEN ents[i]
        ELSE IF revision = "part_001" THEN StepPedestrianDespawning(ents[i], dt, lights)
        ELSE StepPedestrianTurning(revision, ents[i], dt)]

\* an update that also clears the cached fields of the free slots
UpdateResult_ClearsFreeSlots(revision, ents, dt, lights) ==
    LET moved == UpdatePedestrians(revision,
                                   UpdateLanesFrom(revision, ents, 0, dt, lights),
                                   dt, lights)
    IN  [i \in 1..Len(moved) |->
            IF ents[i].active THEN moved[i]
            ELSE [moved[i] EXCEPT !.progress = 0, !.position = <<0, 0, 0>>]]

\* update(dt, trafficLights): the pool after the call
UpdateResult(revision, ents, dt, lights) ==
    UpdatePedestrians(revision, UpdateLanesFrom(revision, ents, 0, dt, lights), dt, lights)

(***************************************************************************)
(* Engine actions                                                          *)
(***************************************************************************)
\* the pool capacity given to the constructor (maxEntities)
MaxEntities == 2

\* update calls are followed while every active lane actor is within
\* MaxLaps lane lengths (a call with a huge dt can leave progress above 1,
\* and each further such call adds to it)
MaxLaps == 1

NoOpts == [type |-> "none", pathId |-> <<>>, speed |-> <<>>]

\* new TrafficEngine(MaxEntities) of the given revision
NewEngine(revision) ==
    /\ rev = revision
    /\ entities = [i \in 1..MaxEntities |-> PoolSlot(i - 1)]
    /\ ecall = [op |-> "new", ret |-> Void, dt |-> 0, lights |-> <<>>,
                opts |-> NoOpts, id |-> Void, pre |-> <<>>, snap |-> <<>>]

\* no controller is constructed in the runs of the engine alone: the signal
\* is an argument of update
NoLights ==
    /\ controller = "none"
    /\ FreshLights

\* spawn(opts), drawing r from Math.random()
Spawn(opts, r) ==
    LET res == SpawnResult(rev, entities, opts, r)
    IN  /\ entities' = res[1]
        /\ ecall' = [op |-> "spawn", ret |-> res[2], dt |-> 0, lights |-> <<>>,
                     opts |-> opts, id |-> Void, pre |-> entities, snap |-> <<>>]
        /\ UNCHANGED <<rev, lightVars, driverVars>>

\* despawn(id)
Despawn(id) ==
    /\ entities' = DespawnResult(entities, id)
    /\ ecall' = [op |-> "despawn", ret |-> Void, dt |-> 0, lights |-> <<>>,
                 opts |-> NoOpts, id |-> id, pre |-> entities, snap |-> <<>>]
    /\ UNCHANGED <<rev, lightVars, driverVars>>

\* reset()
Reset ==
    /\ entities' = ResetResult(entities)
    /\ ecall' = [op |-> "reset", ret |-> Void, dt |-> 0, lights |-> <<>>,
                 opts |-> NoOpts, id |-> Void, pre |-> entities, snap |-> <<>>]
    /\ UNCHANGED <<rev, lightVars, driverVars>>

\* getActiveEntities(): the array returned is kept in ecall.snap
GetActiveEntities ==
    /\ entities' = entities
    /\ ecall' = [op |-> "getActiveEntities", ret |-> Void, dt |-> 0, lights |-> <<>>,
                 opts |-> NoOpts, id |-> Void, pre |-> entities,
                 snap |-> getActiveEntities(entities)]
    /\ UNCHANGED <<rev, lightVars, driverVars>>

\* update(dt, trafficLights), dt in ms
Update(dt, lights) ==
    /\ \A i \in 1..Len(entities) :
          entities[i].active => entities[i].progress <= pathLength + MaxLaps * pathLength
    /\ entities' = UpdateResult(rev, entities, dt, lights)
    /\ ecall' = [op |-> "update", ret |-> Void, dt |-> dt, lights |-> lights,
                 opts |-> NoOpts, id |-> Void, pre |-> entities, snap |-> <<>>]
    /\ UNCHANGED <<rev, lightVars, driverVars>>

\* the signal arguments of update: none, or the two green flags
LightInputs ==
    {<<>>} \cup {<<[NS |-> ns, EW |-> ew]>> : ns \in BOOLEAN, ew \in BOOLEAN}

\* the Math.random() draws of one spawn
Draws(ids, progresses) ==
    [id : ids, scale : {0}, color : {0}, factor : {500}, lane : {0},
     progress : progresses, axis : {TRUE}, side : {TRUE}, start : {TRUE}, side4 : {0}]

(***************************************************************************)
(* Runs of the engine: vehicles on lanes                                   *)
(***************************************************************************)
LaneSpawnOpts ==
    [type : {"Car"}, pathId : {<<0>>}, speed : {<<>>}]

LaneDraws == Draws({<<"id", 1>>}, {1200, 1280})

LaneDts == {0, 1000, 2000, 10000}

LaneLights == {<<>>, <<[NS |-> FALSE, EW |-> TRUE]>>, <<[NS |-> TRUE, EW |-> FALSE]>>}

NextLanes ==
    \/ \E opts \in LaneSpawnOpts, r \in LaneDraws : Spawn(opts, r)
    \/ \E dt \in LaneDts, lights \in LaneLights : Update(dt, lights)

InitLanes == NoLights /\ NoDriver /\ \E revision \in Revisions : NewEngine(revision)

SpecLanes == InitLanes /\ [][NextLanes]_vars

(***************************************************************************)
(* Runs of the engine: cars, trucks and bicycles reaching the lane's end   *)
(***************************************************************************)
KindSpawnOpts ==
    [type : {"Car", "Truck", "Bicycle"}, pathId : {<<0>>}, speed : {<<>>}]

KindDraws == Draws({<<"id", 1>>}, {3000})

\* in 5 s a car covers the lane once, a truck 3/4 and a bicycle 7/8 of it
KindDts == {5000}

\* no signal argument: every lane is green (the stop line is the matter of the
\* lane runs above)
KindLights == {<<>>}

NextKinds ==
    \/ \E opts \in KindSpawnOpts, r \in KindDraws : Spawn(opts, r)
    \/ \E dt \in KindDts, lights \in KindLights : Update(dt, lights)

InitKinds == NoLights /\ NoDriver /\ \E revision \in Revisions : NewEngine(revision)

SpecKinds == InitKinds /\ [][NextKinds]_vars

(***************************************************************************)
(* Runs of the engine: the pool (spawn, despawn, reset, update)            *)
(***************************************************************************)
PoolSpawnOpts ==
    [type : {"Car"}, pathId : {<<0>>}, speed : {<<>>}]
        \cup [type : {"Pedestrian"}, pathId : {<<>>}, speed : {<<1000>>}]

PoolIds == {<<"id", 1>>, <<"id", 2>>}

PoolDraws == Draws(PoolIds, {1200})

\* in 5 s a car (8 units/s) goes once round its lane, and a pedestrian
\* spawned with speed 10 leaves the world of part_001 (from -21 to beyond 25)
PoolDts == {5000}

NextPool ==
    \/ \E opts \in PoolSpawnOpts, r \in PoolDraws : Spawn(opts, r)
    \/ \E id \in PoolIds : Despawn(id)
    \/ Reset
    \/ GetActiveEntities
    \/ \E dt \in PoolDts : Update(dt, <<>>)

InitPool == NoLights /\ NoDriver /\ \E revision \in Revisions : NewEngine(revision)

SpecPool == InitPool /\ [][NextPool]_vars

(***************************************************************************)
(* Runs of the engine: spawn calls naming lanes that do not exist          *)
(***************************************************************************)
\* PATHS has the lanes 0..7: lanes -1 and 8 do not exist
LaneRefSpawnOpts ==
    [type : {"Car"}, pathId : {<<0>>, <<8>>, <<-1>>}, speed : {<<>>}]

NextLaneRefs ==
    \/ \E opts \in LaneRefSpawnOpts, r \in PoolDraws : Spawn(opts, r)
    \/ \E id \in PoolIds : Despawn(id)
    \/ Reset

InitLaneRefs == NoLights /\ NoDriver /\ \E revision \in Revisions : NewEngine(revision)

SpecLaneRefs == InitLaneRefs /\ [][NextLaneRefs]_vars

\* runs with pedestrians only: two of the starts each engine draws, a fast
\* walker (10 units per second), steps of 1 s and 5 s
WalkerSpawnOpts == [type : {"Pedestrian"}, pathId : {<<>>}, speed : {<<1000>>}]

WalkerDraws ==
    [id : {<<"id", 1>>}, scale : {0}, color : {0}, factor : {500}, lane : {0},
     progress : {1200}, axis : {TRUE}, side : {TRUE}, start : BOOLEAN, side4 : {0, 1}]

WalkerDts == {1000, 5000}

WalkerLights == {<<>>, <<[NS |-> FALSE, EW |-> FALSE]>>}

NextWalkers ==
    \/ \E opts \in WalkerSpawnOpts, r \in WalkerDraws : Spawn(opts, r)
    \/ \E dt \in WalkerDts, lights \in WalkerLights : Update(dt, lights)

InitWalkers == NoLights /\ NoDriver /\ \E revision \in Revisions : NewEngine(revision)

SpecWalkers == InitWalkers /\ [][NextWalkers]_vars

\* runs in which two cars are spawned at the same progress of one lane,
\* with ids drawn in either order
TieSpawnOpts == [type : {"Car"}, pathId : {<<0>>}, speed : {<<>>}]

TieIds == {<<"id", 1>>, <<"id", 2>>}

TieDraws == Draws(TieIds, {400, 1200})

TieDts == {500, 1000}

NextTies ==
    \/ \E opts \in TieSpawnOpts, r \in TieDraws : Spawn(opts, r)
    \/ \E dt \in TieDts : Update(dt, <<>>)

InitTies == NoLights /\ NoDriver /\ \E revision \in Revisions : NewEngine(revision)

SpecTies == InitTies /\ [][NextTies]_vars

\* runs of spawn and update under a signal: cars on a north-south and on an
\* east-west lane, steps that land on and inside the centre square
StepSpawnOpts ==
    [type : {"Car"}, pathId : {<<0>>, <<6>>}, speed : {<<>>}]

StepDraws == Draws({<<"id", 1>>}, {800, 1000})

StepDts == {1000}

StepLights == {<<[NS |-> FALSE, EW |-> TRUE]>>, <<[NS |-> TRUE, EW |-> FALSE]>>}

\* the spawn calls of these runs: either draw on the north-south lane, the
\* first draw on the east-west lane
StepSpawns ==
    {sp \in [opts : StepSpawnOpts, r : StepDraws] :
        sp.opts.pathId = <<0>> \/ sp.r.progress = 800}

NextSteps ==
    \/ \E sp \in StepSpawns : Spawn(sp.opts, sp.r)
    \/ \E dt \in StepDts, lights \in StepLights : Update(dt, lights)

InitSteps == NoLights /\ NoDriver /\ \E revision \in Revisions : NewEngine(revision)

SpecSteps == InitSteps /\ [][NextSteps]_vars

(***************************************************************************)
(* The tick driver with the manual override, src/src/simulation/utils.ts   *)
(* (useTrafficSimulation): an effect that repopulates the pool and a       *)
(* per-frame callback that advances the 8-phase controller, then the       *)
(* engine, then publishes the state.                                       *)
(***************************************************************************)
\* ForcedLightPhase
ForcedLightPhases == {"auto", "green", "yellow", "red"}

\* the spawn calls of the effect, in order: counts.car cars, then trucks,
\* bicycles and pedestrians
PopulationTypes(counts) ==
    [k \in 1..(counts.car + counts.truck + counts.bike + counts.ped) |->
        IF k <= counts.car THEN "Car"
        ELSE IF k <= counts.car + counts.truck THEN "Truck"
        ELSE IF k <= counts.car + counts.truck + counts.bike THEN "Bicycle"
        ELSE "Pedestrian"]

\* the pool after the spawn calls k, k + 1, ... of the effect; rs[k] holds
\* the Math.random() draws of the k-th call
RECURSIVE SpawnAll(_, _, _, _, _)
SpawnAll(revision, ents, types, rs, k) ==
    IF k > Len(types) THEN ents
    ELSE SpawnAll(revision,
                  SpawnResult(revision, ents,
                              [type |-> types[k], pathId |-> <<>>, speed |-> <<>>],
                              rs[k])[1],
                  types, rs, k + 1)

\* the effect: engine.reset(), then the spawn calls
PopulateResult(revision, ents, counts, rs) ==
    SpawnAll(revision, ResetResult(ents), PopulationTypes(counts), rs, 1)

\* the effect runs (on mount and when a density or ratio setting changes)
Populate(counts, rs) ==
    /\ entities' = PopulateResult(rev, entities, counts, rs)
    /\ ecall' = [op |-> "populate", ret |-> Void, dt |-> 0, lights |-> <<>>,
                 opts |-> NoOpts, id |-> Void, pre |-> entities, snap |-> <<>>]
    /\ UNCHANGED <<rev, lightVars, driverVars>>

\* the head the frame callback uses for an axis
ForcedPhase(force, phase) == IF force # "auto" THEN force ELSE phase

\* the state the frame callback publishes, from the controller and the pool
\* as they are after its two update calls
PublishedState(idx, el, ents, force) ==
    [entities |-> getActiveEntities(ents),
     NS |-> ForcedPhase(force, EightPhaseNSPhase(idx)),
     EW |-> ForcedPhase(force, EightPhaseEWPhase(idx)),
     countdown |-> EightPhaseCountdown(idx, el),
     NSLeft |-> EightPhaseNSLeftPhase(idx),
     EWLeft |-> EightPhaseEWLeftPhase(idx),
     pedNS |-> EightPhasePedNSPhase(idx),
     pedEW |-> EightPhasePedEWPhase(idx),
     force |-> force]

\* one frame: deltaMs is clock.getDelta() * speedMultiplier in ms, force is
\* config.forceLightPhase
Tick(deltaMs, force) ==
    LET after == EightPhaseAfter(phaseIndex, phaseElapsedMs, deltaMs)
        ns == ForcedPhase(force, EightPhaseNSPhase(after.phaseIndex))
        ew == ForcedPhase(force, EightPhaseEWPhase(after.phaseIndex))
        lights == <<[NS |-> ns = "green", EW |-> ew = "green"]>>
        moved == UpdateResult(rev, entities, deltaMs, lights)
    IN  /\ controller = "8-phase"
        /\ driver = "utils"
        /\ sum8 <= MaxCycles * EightPhaseCycleMs
        /\ \A i \in 1..Len(entities) :
              entities[i].active => entities[i].progress <= pathLength + MaxLaps * pathLength
        /\ EightPhaseUpdateCore(deltaMs)
        /\ entities' = moved
        /\ ecall' = [op |-> "update", ret |-> Void, dt |-> deltaMs, lights |-> lights,
                     opts |-> NoOpts, id |-> Void, pre |-> entities, snap |-> <<>>]
        /\ published' = PublishedState(phaseIndex', phaseElapsedMs', entities', force)
        /\ UNCHANGED <<controller, timer, sum2, last2, rev, driver, pedSignals>>

\* ratio settings of the effect: cars only, or cars and pedestrians
DriverCounts ==
    {[car |-> 4, truck |-> 0, bike |-> 0, ped |-> 0],
     [car |-> 1, truck |-> 0, bike |-> 0, ped |-> 1]}

\* the draws of the effect's spawn calls
DriverDraws ==
    {[k \in 1..4 |->
        [id |-> <<"id", k>>, scale |-> 0, color |-> 0, factor |-> 500, lane |-> 0,
         progress |-> 1200, axis |-> TRUE, side |-> TRUE, start |-> TRUE,
         side4 |-> 0]]}

\* deltaMs of a frame
DriverDts == {2000}

NextDriver ==
    \/ \E counts \in DriverCounts, rs \in DriverDraws : Populate(counts, rs)
    \/ \E deltaMs \in DriverDts, force \in ForcedLightPhases : Tick(deltaMs, force)

InitDriver ==
    /\ controller = "8-phase"
    /\ FreshLights
    /\ \E revision \in Revisions : NewEngine(revision)
    /\ driver = "utils"
    /\ published = InitialState
    /\ pedSignals = FreshPedestrianSignals

SpecDriver == InitDriver /\ [][NextDriver]_vars

(***************************************************************************)
(* The two tick drivers of src/src/hooks/useTrafficSimulation.ts: hook_a   *)
(* (lines 14-94) and hook_b (lines 117-200), which also runs a             *)
(* PedestrianSignals object (src/src/simulation/PedestrianSignals.ts).     *)
(* They run either TrafficLights class: both have update, getNSPhase,      *)
(* getEWPhase and getCountdownSecRounded.                                  *)
(***************************************************************************)
Hooks == {"hook_a", "hook_b"}

\* PedestrianSignals.walkTime / flashTime
walkTime == 4000

flashTime == 2000

\* PedestrianSignals.getTimer(light)
PedGetTimer(light) == IF light = "green" THEN walkTime ELSE 0

\* PedestrianSignals.updatePed for one axis: the phase and the timer after
PedAfter(phase, t, dt, light) ==
    IF light = "green"
    THEN LET t1 == IF phase # "walk" THEN 0 ELSE t
         IN  [phase |-> IF walkTime > 0 /\ walkTime - PedGetTimer(light) >= 0
                        THEN "walk" ELSE "flash",
              timer |-> t1 + dt]
    ELSE IF light = "yellow" THEN [phase |-> "flash", timer |-> t]
    ELSE [phase |-> "dont", timer |-> t]

\* PedestrianSignals.update(dt, nsPhase, ewPhase)
PedestrianSignalsAfter(p, dt, nsPhase, ewPhase) ==
    LET ns == PedAfter(p.pedNS, p.nsTimer, dt, nsPhase)
        ew == PedAfter(p.pedEW, p.ewTimer, dt, ewPhase)
    IN  [pedNS |-> ns.phase, pedEW |-> ew.phase,
         nsTimer |-> ns.timer, ewTimer |-> ew.timer]

\* getNSPhase / getEWPhase / getCountdownSecRounded of the controller in use
HookNSPhase(c, t, idx) ==
    IF c = "two-phase" THEN TwoPhaseNSPhase(t) ELSE EightPhaseNSPhase(idx)

HookEWPhase(c, t, idx) ==
    IF c = "two-phase" THEN TwoPhaseEWPhase(t) ELSE EightPhaseEWPhase(idx)

HookCountdown(c, t, idx, el) ==
    IF c = "two-phase" THEN TwoPhaseCountdown(t) ELSE EightPhaseCountdown(idx, el)

\* useState's initial SimulationState of a hook
HookInitialState(d) ==
    IF d = "hook_a"
    THEN [entities |-> <<>>, NS |-> "green", EW |-> "red", countdown |-> 0]
    ELSE [entities |-> <<>>, NS |-> "green", EW |-> "red",
          pedNS |-> "dont", pedEW |-> "dont", countdown |-> 0]

\* the most cars and trucks the effect spawns: density 1 of
\* floor(0.8 * pool) in hook_a, of floor(0.7 * pool) in hook_b
HookMaxVehicles(d, ents) ==
    IF d = "hook_a" THEN (8 * Len(ents)) \div 10 ELSE (7 * Len(ents)) \div 10

\* the spawn calls of the effect, in order.  cfg.vehicles holds the types
\* the Car / Truck draws pick; hook_a adds 5 pedestrians and 5 bicycles when
\* enabled, hook_b always 6 bicycles and then 10 pedestrians
HookPopulationTypes(d, cfg) ==
    IF d = "hook_a"
    THEN cfg.vehicles
         \o (IF cfg.pedestrianEnabled THEN [k \in 1..5 |-> "Pedestrian"] ELSE <<>>)
         \o (IF cfg.bicycleEnabled THEN [k \in 1..5 |-> "Bicycle"] ELSE <<>>)
    ELSE cfg.vehicles \o [k \in 1..6 |-> "Bicycle"] \o [k \in 1..10 |-> "Pedestrian"]

\* the effect of a hook: engine.reset(), then the spawn calls
HookPopulate(cfg, rs) ==
    /\ driver \in Hooks
    /\ Len(cfg.vehicles) <= HookMaxVehicles(driver, entities)
    /\ entities' = SpawnAll(rev, ResetResult(entities),
                            HookPopulationTypes(driver, cfg), rs, 1)
    /\ ecall' = [op |-> "populate", ret |-> Void, dt |-> 0, lights |-> <<>>,
                 opts |-> NoOpts, id |-> Void, pre |-> entities, snap |-> <<>>]
    /\ UNCHANGED <<rev, lightVars, driverVars>>

\* the light update of a frame, on whichever controller is constructed
HookLightsUpdate(deltaMs) ==
    IF controller = "two-phase"
    THEN /\ sum2 <= MaxCycles * cycleLength
         /\ TwoPhaseUpdateCore(deltaMs)
         /\ UNCHANGED <<controller, phaseIndex, phaseElapsedMs, sum8, lost8, last8>>
    ELSE /\ sum8 <= MaxCycles * EightPhaseCycleMs
         /\ EightPhaseUpdateCore(deltaMs)
         /\ UNCHANGED <<controller, timer, sum2, last2>>

\* the signal argument of a frame's engine.update: before and after hold the
\* NS and EW heads before and after the frame's light update
FrameLights_Stale(before, after) ==
    <<[NS |-> before.NS = "green", EW |-> before.EW = "green"]>>

FrameLights(before, after) ==
    <<[NS |-> after.NS = "green", EW |-> after.EW = "green"]>>

\* a frame after its light update: the flags, the pedestrian signals of
\* hook_b, the engine update and the publish
FrameBody(deltaMs) ==
    /\ LET before == [NS |-> HookNSPhase(controller, timer, phaseIndex),
                      EW |-> HookEWPhase(controller, timer, phaseIndex)]
           after == [NS |-> HookNSPhase(controller, timer', phaseIndex'),
                     EW |-> HookEWPhase(controller, timer', phaseIndex')]
           lights == FrameLights(before, after)
           countdown == HookCountdown(controller, timer', phaseIndex', phaseElapsedMs')
       IN  /\ pedSignals' = IF driver = "hook_b"
                            THEN PedestrianSignalsAfter(pedSignals, deltaMs,
                                                        after.NS, after.EW)
                            ELSE pedSignals
           /\ entities' = UpdateResult(rev, entities, deltaMs, lights)
           /\ ecall' = [op |-> "update", ret |-> Void, dt |-> deltaMs, lights |-> lights,
                        opts |-> NoOpts, id |-> Void, pre |-> entities, snap |-> <<>>]
           /\ published' =
                 IF driver = "hook_a"
                 THEN [entities |-> getActiveEntities(entities'),
                       NS |-> after.NS, EW |-> after.EW, countdown |-> countdown]
                 ELSE [entities |-> getActiveEntities(entities'),
                       NS |-> after.NS, EW |-> after.EW,
                       pedNS |-> pedSignals'.pedNS, pedEW |-> pedSignals'.pedEW,
                       countdown |-> countdown]
    /\ UNCHANGED <<rev, driver>>

\* one frame of a hook: deltaMs is clock.getDelta() * speedMultiplier in ms
Frame(deltaMs) ==
    /\ driver \in Hooks
    /\ \A i \in 1..Len(entities) :
          entities[i].active => entities[i].progress <= pathLength + MaxLaps * pathLength
    /\ HookLightsUpdate(deltaMs)
    /\ FrameBody(deltaMs)

\* settings of the effect
HookConfigs ==
    {[vehicles |-> <<"Car">>, pedestrianEnabled |-> FALSE, bicycleEnabled |-> TRUE],
     [vehicles |-> <<>>, pedestrianEnabled |-> TRUE, bicycleEnabled |-> TRUE]}

\* the draws of the effect's spawn calls: lanes 0 (north-south) and 4
\* (east-west) in turn
HookDraws ==
    {[k \in 1..17 |->
        [id |-> <<"id", k>>, scale |-> 0, color |-> 0, factor |-> 500,
         lane |-> IF k % 2 = 1 THEN 0 ELSE 4,
         progress |-> 1200, axis |-> TRUE, side |-> TRUE, start |-> TRUE,
         side4 |-> 0]]}

\* deltaMs of a frame
FrameDts == {2000}

NextFrames ==
    \/ \E cfg \in HookConfigs, rs \in HookDraws : HookPopulate(cfg, rs)
    \/ \E deltaMs \in FrameDts : Frame(deltaMs)

InitFrames ==
    /\ controller \in {"two-phase", "8-phase"}
    /\ FreshLights
    /\ \E revision \in Revisions : NewEngine(revision)
    /\ driver \in Hooks
    /\ published = HookInitialState(driver)
    /\ pedSignals = FreshPedestrianSignals

SpecFrames == InitFrames /\ [][NextFrames]_vars

\* Endless runs of hook_a with the 8-phase controller and the part_001
\* engine.  The effect may repopulate the pool at any time.  Every frame has
\* the same deltaMs, half a second: a car (8 units/s) then steps 4 units,
\* less than the 8 of the footprint.
\* the light update that opens a frame
FrameLightsForever(deltaMs) ==
    /\ driver \in Hooks
    /\ EightPhaseRepeatCore(deltaMs)

FrameForever(deltaMs) ==
    /\ FrameLightsForever(deltaMs)
    /\ FrameBody(deltaMs)

FixedFrameDt == 500

\* settings of the effect: one car, then bicycles while the pool has room
ForeverConfigs ==
    {[vehicles |-> <<"Car">>, pedestrianEnabled |-> FALSE, bicycleEnabled |-> TRUE]}

\* the draws of the effect's spawn calls: the car on lane 0 one step before
\* the stop line and the bicycles on lane 4, or all on lane 0 with the car
\* less than minSpacing behind the bicycles
ForeverDraws ==
    {[k \in 1..6 |->
        [id |-> <<"id", k>>, scale |-> 0, color |-> 0, factor |-> 500,
         lane |-> IF k = 1 THEN 0 ELSE lane,
         progress |-> IF k = 1 THEN (IF lane = 0 THEN 1000 ELSE 1200) ELSE 1200,
         axis |-> TRUE, side |-> TRUE, start |-> TRUE, side4 |-> 0]] :
     lane \in {0, 4}}

NextFramesForever ==
    \/ \E cfg \in ForeverConfigs, rs \in ForeverDraws : HookPopulate(cfg, rs)
    \/ FrameForever(FixedFrameDt)

InitFramesForever ==
    /\ controller = "8-phase"
    /\ FreshLights
    /\ NewEngine("part_001")
    /\ driver = "hook_a"
    /\ published = HookInitialState(driver)
    /\ pedSignals = FreshPedestrianSignals

\* useFrame runs the callback on every rendered frame, so frames are taken
\* again and again (weak fairness).  A frame is enabled in every state, and
\* a step of NextFramesForever is a frame exactly when it is a light update
\* (the effect leaves the controller alone, a light update with deltaMs > 0
\* changes phaseElapsedMs or phaseIndex), so the fairness is stated on the
\* light update that opens the frame.
SpecFramesForever ==
    InitFramesForever /\ [][NextFramesForever]_vars
        /\ WF_lightVars(FrameLightsForever(FixedFrameDt))


(***************************************************************************)
(* Claims about the signal controllers                                     *)
(***************************************************************************)
NSofTwoPhase == TwoPhaseNSPhase(timer)

EWofTwoPhase == TwoPhaseEWPhase(timer)

NSofEightPhase == EightPhaseNSPhase(phaseIndex)

EWofEightPhase == EightPhaseEWPhase(phaseIndex)

\* C5: signal mutual exclusion.  In every reachable state of either
\* controller at most one axis ball head is non-red: NS in {green, yellow}
\* implies EW = red, and EW in {green, yellow} implies NS = red.
C5_MutualExclusion ==
    /\ NSofTwoPhase \in {"green", "yellow"} => EWofTwoPhase = "red"
    /\ EWofTwoPhase \in {"green", "yellow"} => NSofTwoPhase = "red"
    /\ NSofEightPhase \in {"green", "yellow"} => EWofEightPhase = "red"
    /\ EWofEightPhase \in {"green", "yellow"} => NSofEightPhase = "red"

\* C5 witness: the two-phase controller has been updated into NS yellow
\* (EW must then be red).
C5_Witness ==
    /\ controller = "two-phase"
    /\ last2.calls = 1
    /\ NSofTwoPhase = "yellow"
    /\ EWofTwoPhase = "red"

\* C6: cycle closure of the two-phase controller.  Whenever the dt values
\* given since construction sum to exactly cycleLength, the controller is
\* back in its initial phase (NS green, EW red) with zero elapsed time.
C6_CycleClosureTwoPhase ==
    (controller = "two-phase" /\ sum2 = cycleLength)
        => (timer = 0 /\ NSofTwoPhase = "green" /\ EWofTwoPhase = "red")

\* C7 as claimed: cycle closure of the 8-phase controller for every sequence
\* of update calls whose dt values sum to exactly one cycle.
C7_CycleClosureEightPhase ==
    /\ EightPhaseCycleMs = 36000
    /\ (controller = "8-phase" /\ sum8 = EightPhaseCycleMs)
          => (phaseIndex = 0 /\ phaseElapsedMs = 0)

\* C7 amended: the phase durations sum to 36 s, and whenever the dt values
\* sum to exactly one cycle and no update call overshot the end of a phase
\* (nothing was truncated), the controller is back in NS_LEFT with
\* phaseElapsedMs = 0.
C7_CycleClosureAligned ==
    /\ EightPhaseCycleMs = 36000
    /\ (controller = "8-phase" /\ sum8 = EightPhaseCycleMs /\ lost8 = 0)
          => (phaseIndex = 0 /\ phaseElapsedMs = 0)

\* C7 witness: a full cycle of updates, none of which overshot a phase end.
C7_Witness ==
    /\ controller = "8-phase"
    /\ sum8 = EightPhaseCycleMs
    /\ lost8 = 0
    /\ last8.calls = 1
    /\ last8.phaseIndex = Len(PHASES) - 1
    /\ phaseIndex = 0

\* C8: green/yellow durations.  An axis is green for 8 seconds and then
\* yellow for 2 seconds: after updates totalling 7999 ms the two-phase
\* controller shows NS green with countdown 1, and after 2 more
\* milliseconds NS is yellow.
C8_GreenYellowDurations ==
    controller = "two-phase" =>
        /\ sum2 < 8000 => NSofTwoPhase = "green"
        /\ sum2 = 7999 => TwoPhaseCountdown(timer) = 1
        /\ (sum2 >= 8000 /\ sum2 < 10000) => NSofTwoPhase = "yellow"

\* C9: the countdown of the 8-phase controller is the ceiling of the
\* remaining time of the current phase in seconds.
C9_CountdownIsCeiling ==
    controller = "8-phase" =>
        EightPhaseCountdown(phaseIndex, phaseElapsedMs)
            = CeilDiv(DurationMs(phaseIndex) - phaseElapsedMs, 1000)

\* C10: two-phase sequencing.  No axis changes directly from green to red
\* (an update of at most YELLOW_TIME cannot step over a yellow interval).
C10_TwoPhaseSequencing ==
    (controller = "two-phase" /\ last2.calls = 1 /\ last2.dt <= YELLOW_TIME) =>
        /\ ~(TwoPhaseNSPhase(last2.timer) = "green" /\ NSofTwoPhase = "red")
        /\ ~(TwoPhaseEWPhase(last2.timer) = "green" /\ EWofTwoPhase = "red")

\* the heads of the 8-phase controller in the current state
NSLeftofEightPhase == EightPhaseNSLeftPhase(phaseIndex)

EWLeftofEightPhase == EightPhaseEWLeftPhase(phaseIndex)

PedNSofEightPhase == EightPhasePedNSPhase(phaseIndex)

PedEWofEightPhase == EightPhasePedEWPhase(phaseIndex)

\* C11: in each of the 8 phases the pedestrian head of an axis is walk
\* exactly in that axis's through-green (main head green, protected-left
\* arrow not green), hand-blink exactly in its yellow, and hand in every
\* other phase: its protected left, both all-red clearances and the phases
\* of the other axis.
C11_PedestrianDerivation ==
    controller = "8-phase" =>
        /\ phaseIndex \in 0..(Len(PHASES) - 1)
        /\ PedNSofEightPhase = "walk" <=>
              (NSofEightPhase = "green" /\ NSLeftofEightPhase # "green")
        /\ PedNSofEightPhase = "hand-blink" <=> NSofEightPhase = "yellow"
        /\ PedNSofEightPhase = "hand" <=>
              (NSofEightPhase = "red" \/ NSLeftofEightPhase = "green")
        /\ PedEWofEightPhase = "walk" <=>
              (EWofEightPhase = "green" /\ EWLeftofEightPhase # "green")
        /\ PedEWofEightPhase = "hand-blink" <=> EWofEightPhase = "yellow"
        /\ PedEWofEightPhase = "hand" <=>
              (EWofEightPhase = "red" \/ EWLeftofEightPhase = "green")
        /\ current(phaseIndex).name \in {"ALL_RED_1", "ALL_RED_2"} =>
              (PedNSofEightPhase = "hand" /\ PedEWofEightPhase = "hand")

\* the controller has been advanced into EW_THROUGH: EW pedestrians walk
\* while the NS head shows the hand
C11_Witness ==
    /\ controller = "8-phase"
    /\ last8.calls > 0
    /\ current(phaseIndex).name = "EW_THROUGH"
    /\ PedEWofEightPhase = "walk"
    /\ PedNSofEightPhase = "hand"

(***************************************************************************)
(* Claims about the engine                                                 *)
(***************************************************************************)
\* the coordinate of a lane vehicle along its travel axis (z on lanes 0-3,
\* x on lanes 4-7)
AxisCoord(ent) == IF ent.pathId < 4 THEN ent.position[3] ELSE ent.position[1]

\* the component of its direction along that axis
AxisDir(ent) == IF ent.pathId < 4 THEN ent.dir[3] ELSE ent.dir[1]

\* outside the intersection footprint, on the side the vehicle comes from
OnApproachSide(ent) ==
    /\ Abs(AxisCoord(ent)) > STOP_WORLD
    /\ AxisCoord(ent) * AxisDir(ent) < 0

\* the slots holding an active lane vehicle
LaneVehicles(ents) ==
    {i \in 1..Len(ents) : ents[i].active /\ ents[i].type # "Pedestrian"}

\* C1: when update has returned, any two active non-pedestrian actors of one
\* lane differ in progress by at least minSpacing (adjacent ones do exactly
\* when all do).
C1_SpacingInvariant ==
    ecall.op = "update" =>
        \A lane \in Lanes : \A i, j \in LaneMembers(entities, lane) :
            i # j => Abs(entities[i].progress - entities[j].progress) >= minSpacing

\* C2: a lane vehicle that is outside the footprint on the approach side
\* before update, with its axis not green in the call, is still outside the
\* footprint on the approach side after the call.
C2_StopLineRespect ==
    ecall.op = "update" =>
        \A i \in LaneVehicles(ecall.pre) :
            (/\ OnApproachSide(ecall.pre[i])
             /\ ~LightIsGreen(ecall.lights, ecall.pre[i].pathId < 4))
            => OnApproachSide(entities[i])

\* C3: every active lane-bound actor has 0 <= progress <= 1, right after
\* spawn and after every update.
C3_ProgressBounds ==
    \A i \in LaneVehicles(entities) :
        /\ 0 <= entities[i].progress
        /\ entities[i].progress <= pathLength

\* whether every slot of a pool is active
PoolFull(ents) == \A i \in 1..Len(ents) : ents[i].active

\* whether spawn(opts) asks for a pedestrian or for an existing lane (a lane
\* that is not given is drawn from 0..7)
ValidSpawn(opts) ==
    \/ opts.type = "Pedestrian"
    \/ opts.pathId = <<>>
    \/ opts.pathId[1] \in Lanes

\* C4: spawn returns null exactly when every slot was active at the call; a
\* spawn that returns null leaves the pool as it was; a spawn for a
\* pedestrian or a valid lane with an inactive slot returns the id of a slot
\* that was inactive and is active now, all other slots being untouched.
C4_PoolExhaustion ==
    ecall.op = "spawn" =>
        /\ (ecall.ret = Null) <=> PoolFull(ecall.pre)
        /\ ecall.ret = Null => entities = ecall.pre
        /\ (~PoolFull(ecall.pre) /\ ValidSpawn(ecall.opts)) =>
              \E i \in 1..Len(entities) :
                 /\ ~ecall.pre[i].active
                 /\ entities[i].active
                 /\ entities[i].id = ecall.ret
                 /\ \A j \in 1..Len(entities) : j # i => entities[j] = ecall.pre[j]

\* a spawn on a full pool returned null
C4_Witness ==
    /\ ecall.op = "spawn"
    /\ ecall.ret = Null
    /\ PoolFull(ecall.pre)
    /\ Len(ecall.pre) = MaxEntities

\* the slots whose vehicle leads its lane before the update call recorded
\* in ecall (no other vehicle of the lane at the same progress or ahead):
\* nothing clamps their candidate
LaneLeaders ==
    {i \in LaneVehicles(ecall.pre) :
        \A j \in LaneMembers(ecall.pre, ecall.pre[i].pathId) :
            j # i => ecall.pre[j].progress < ecall.pre[i].progress}

\* the candidate progress of a lane leader in that call
LeaderCandidate(i) ==
    IF HeldAtStopLine(rev, ecall.pre[i], ecall.pre[i].pathId, ecall.dt, ecall.lights)
    THEN ecall.pre[i].progress
    ELSE ecall.pre[i].progress + Travel(EffectiveSpeed(ecall.pre[i]), ecall.dt)

\* the lane leaders of the given types whose candidate exceeded 1
Finishers(types) ==
    {i \in LaneLeaders : ecall.pre[i].type \in types /\ LeaderCandidate(i) > pathLength}

\* C12 (as claimed): a Bicycle whose candidate exceeds 1 during update is
\* inactive after the update.
C12_BicycleDespawns ==
    ecall.op = "update" =>
        \A i \in Finishers({"Bicycle"}) : ~entities[i].active

\* C12 (amended): update never deactivates a Bicycle; one whose candidate
\* exceeds 1 stays active on its lane and its progress is the candidate
\* minus 1, as for cars and trucks.
C12_BicycleReenters ==
    ecall.op = "update" =>
        /\ \A i \in LaneVehicles(ecall.pre) :
              ecall.pre[i].type = "Bicycle" =>
                 /\ entities[i].active
                 /\ entities[i].type = "Bicycle"
                 /\ entities[i].pathId = ecall.pre[i].pathId
        /\ \A i \in Finishers({"Bicycle"}) :
              entities[i].progress = LeaderCandidate(i) - pathLength

\* an update took a bicycle past the end of its lane
C12_Witness ==
    /\ ecall.op = "update"
    /\ Finishers({"Bicycle"}) # {}

\* C13 (as claimed): a Car or Truck whose candidate exceeds 1 during update
\* stays active on its lane with progress 0.
C13_VehicleWrapsToZero ==
    ecall.op = "update" =>
        \A i \in Finishers({"Car", "Truck"}) :
            /\ entities[i].active
            /\ entities[i].pathId = ecall.pre[i].pathId
            /\ entities[i].progress = 0

\* C13 (amended): a Car or Truck whose candidate exceeds 1 stays active on
\* its lane; its progress is the candidate minus 1, above 0 (the overshoot
\* is carried into the new lap), and its position is that point of the lane.
C13_VehicleWrapCarriesOvershoot ==
    ecall.op = "update" =>
        \A i \in Finishers({"Car", "Truck"}) :
            /\ entities[i].active
            /\ entities[i].type = ecall.pre[i].type
            /\ entities[i].pathId = ecall.pre[i].pathId
            /\ entities[i].progress = LeaderCandidate(i) - pathLength
            /\ entities[i].progress > 0
            /\ entities[i].position = pointOnPath(entities[i].pathId, entities[i].progress)

\* an update took a truck past the end of its lane
C13_Witness ==
    /\ ecall.op = "update"
    /\ \E i \in Finishers({"Car", "Truck"}) : ecall.pre[i].type = "Truck"

\* the slots of a pool that hold an active actor
ActiveSlots(ents) == {i \in 1..Len(ents) : ents[i].active}

\* C14: despawn(id) with the id of an active actor leaves exactly one slot
\* changed, that of an actor with this id, now inactive; with no active
\* actor of that id it changes nothing.
C14_DespawnFrame ==
    ecall.op = "despawn" =>
        LET named == {i \in ActiveSlots(ecall.pre) : ecall.pre[i].id = ecall.id}
        IN  IF named = {}
            THEN entities = ecall.pre
            ELSE \E i \in named : entities = [ecall.pre EXCEPT ![i].active = FALSE]

\* C15: after reset every slot is inactive with progress 0 and speed 0, the
\* snapshot is empty and the pool has the capacity given at construction.
C15_Reset ==
    ecall.op = "reset" =>
        /\ \A i \in 1..Len(entities) :
              /\ ~entities[i].active
              /\ entities[i].progress = 0
              /\ entities[i].speed = 0
        /\ getActiveEntities(entities) = <<>>
        /\ Len(entities) = MaxEntities
        /\ Len(entities) = Len(ecall.pre)

\* reset was called on a pool holding an active actor with progress and
\* speed other than 0
C15_Witness ==
    /\ ecall.op = "reset"
    /\ \E i \in ActiveSlots(ecall.pre) :
          ecall.pre[i].progress > 0 /\ ecall.pre[i].speed > 0

\* C16: getActiveEntities() returns the active slots and only those, each
\* once and in pool order, changes no slot, and a second call right after it
\* returns an equal result.
C16_IdempotentSnapshot ==
    ecall.op = "getActiveEntities" =>
        /\ entities = ecall.pre
        /\ Len(ecall.snap) = Cardinality(ActiveSlots(entities))
        /\ \A k \in 1..Len(ecall.snap) : ecall.snap[k].active
        /\ \E f \in [1..Len(ecall.snap) -> ActiveSlots(entities)] :
              /\ \A k \in 1..Len(ecall.snap) : ecall.snap[k] = entities[f[k]]
              /\ \A k, l \in 1..Len(ecall.snap) : k < l => f[k] < f[l]
        /\ getActiveEntities(entities) = ecall.snap

\* a snapshot was taken of a pool with an active and an inactive slot
C16_Witness ==
    /\ ecall.op = "getActiveEntities"
    /\ ActiveSlots(entities) # {}
    /\ ActiveSlots(entities) # 1..Len(entities)
    /\ Len(ecall.snap) = Cardinality(ActiveSlots(entities))

\* C17: the pool always has as many slots as the constructor was given, so
\* there are never more active actors than that.
C17_FixedPoolSize ==
    /\ Len(entities) = MaxEntities
    /\ Cardinality(ActiveSlots(entities)) <= MaxEntities

\* update ran on a pool whose slots were all active
C17_Witness ==
    /\ ecall.op = "update"
    /\ ActiveSlots(ecall.pre) = 1..MaxEntities
    /\ Len(entities) = MaxEntities

\* C18: no two active actors have the same id.
C18_IdUniqueness ==
    \A i, j \in ActiveSlots(entities) : i # j => entities[i].id # entities[j].id

\* C19: a spawn of a non-pedestrian kind with a lane outside 0..7 returns no
\* actor id, activates no slot and leaves every active actor as it was.
C19_InvalidLane ==
    (/\ ecall.op = "spawn"
     /\ ecall.opts.type # "Pedestrian"
     /\ ecall.opts.pathId # <<>>
     /\ ecall.opts.pathId[1] \notin Lanes)
    => /\ ecall.ret \in {Null, Thrown}
       /\ Len(entities) = Len(ecall.pre)
       /\ ActiveSlots(entities) = ActiveSlots(ecall.pre)
       /\ \A i \in ActiveSlots(ecall.pre) : entities[i] = ecall.pre[i]

\* a spawn on lane 8 threw while another actor was active and a slot was free
C19_Witness ==
    /\ ecall.op = "spawn"
    /\ ecall.opts.type = "Car"
    /\ ecall.opts.pathId = <<8>>
    /\ ecall.ret = Thrown
    /\ ActiveSlots(ecall.pre) # {}

\* whether the step is a frame of the tick driver
IsTick == ecall'.op = "update" /\ sum8' # sum8

\* C20: a frame with forceLightPhase other than auto leaves the automatic
\* cycle where it was, and when the frame before it was forced too it
\* publishes the same countdown as that frame.
C20_OverrideCountdownFixed ==
    [][(IsTick /\ published'.force # "auto") =>
          /\ phaseIndex' = phaseIndex
          /\ phaseElapsedMs' = phaseElapsedMs
          /\ (published.force # "auto" => published'.countdown = published.countdown)]_vars


(***************************************************************************)
(* Claims about the tick drivers of hooks/useTrafficSimulation.ts          *)
(***************************************************************************)
\* a step that is one frame of a hook
IsFrame == driver \in Hooks /\ ecall'.op = "update"

\* C21 (tick ordering): a frame of a hook is one light update with the
\* frame's dt, then one engine update with the same dt whose NS / EW green
\* flags are read from the controller as it is after that light update,
\* then one publish of the pool and the heads as they are after both.
C21_TickOrdering ==
    [][IsFrame =>
        LET dt == ecall'.dt
            ns == HookNSPhase(controller, timer', phaseIndex')
            ew == HookEWPhase(controller, timer', phaseIndex')
        IN  /\ IF controller = "two-phase"
               THEN /\ timer' = TwoPhaseTimerAfter(timer, dt)
                    /\ sum2' = sum2 + dt
                    /\ UNCHANGED <<phaseIndex, phaseElapsedMs, sum8>>
               ELSE /\ [phaseIndex |-> phaseIndex', phaseElapsedMs |-> phaseElapsedMs']
                          = EightPhaseAfter(phaseIndex, phaseElapsedMs, dt)
                    /\ sum8' = sum8 + dt
                    /\ UNCHANGED <<timer, sum2>>
            /\ ecall'.lights = <<[NS |-> ns = "green", EW |-> ew = "green"]>>
            /\ ecall'.pre = entities
            /\ entities' = UpdateResult(rev, entities, dt, ecall'.lights)
            /\ published'.entities = getActiveEntities(entities')
            /\ published'.NS = ns
            /\ published'.EW = ew
            /\ published'.countdown =
                  HookCountdown(controller, timer', phaseIndex', phaseElapsedMs')]_vars

\* a frame whose light update ended the north-south green, with actors in
\* the pool: the engine was told the axis is not green
C21_Witness ==
    /\ driver \in Hooks
    /\ ecall.op = "update"
    /\ controller = "8-phase"
    /\ EightPhaseNSPhase(last8.phaseIndex) = "green"
    /\ EightPhaseNSPhase(phaseIndex) = "yellow"
    /\ ecall.lights = <<[NS |-> FALSE, EW |-> FALSE]>>
    /\ published.NS = "yellow"
    /\ published.entities # <<>>


(***************************************************************************)
(* Claims about one engine update                                          *)
(***************************************************************************)
\* the fields of an actor that C22 names
Kinematics(ent) ==
    [active |-> ent.active, progress |-> ent.progress,
     position |-> ent.position, dir |-> ent.dir]

\* C22 (dt = 0 is a no-op): after update(0, signal) every slot has the
\* active flag, progress, position and heading it had before the call.
C22_ZeroDtNoOp ==
    (ecall.op = "update" /\ ecall.dt = 0) =>
        /\ Len(entities) = Len(ecall.pre)
        /\ \A i \in 1..Len(entities) :
              Kinematics(entities[i]) = Kinematics(ecall.pre[i])


\* the slots of the pool before the last update that held an active lane
\* vehicle
UpdatedVehicles ==
    {i \in 1..Len(ecall.pre) :
        ecall.pre[i].active /\ ecall.pre[i].type # "Pedestrian"}

\* the unclamped candidate of slot i in the last update
Candidate(i) ==
    ecall.pre[i].progress + Travel(EffectiveSpeed(ecall.pre[i]), ecall.dt)

\* whether the last update had the axis of slot i green (or no signal)
AxisWasGreen(i) == LightIsGreen(ecall.lights, ecall.pre[i].pathId < 4)

\* whether, before the last update, no actor of slot i's lane with strictly
\* greater progress was closer than minSpacing to slot i's candidate
ClearAhead(i) ==
    \A j \in UpdatedVehicles :
        (ecall.pre[j].pathId = ecall.pre[i].pathId
            /\ ecall.pre[j].progress > ecall.pre[i].progress)
        => ecall.pre[j].progress - Candidate(i) >= minSpacing

\* C23 (free advance): a lane vehicle whose axis is green or unsignalled,
\* with nobody of greater progress within minSpacing of its candidate and a
\* candidate of at most 1, ends the update exactly at its candidate,
\* pre-progress + speed * dt / 40.
C23_FreeAdvance ==
    ecall.op = "update" =>
        \A i \in UpdatedVehicles :
            (AxisWasGreen(i) /\ ClearAhead(i) /\ Candidate(i) <= pathLength)
            => entities[i].progress = Candidate(i)


\* whether slot i was, before the last update, outside the centre square
\* with a step that lands on or inside it
StepEntersFootprint(i) ==
    LET ent == ecall.pre[i]
        nextCoord == AxisCoord(ent)
                        + AxisDir(ent) * Travel(EffectiveSpeed(ent), ecall.dt)
    IN  /\ Abs(AxisCoord(ent)) > STOP_WORLD
        /\ Abs(nextCoord) <= STOP_WORLD

\* C24 (hold at the stop line): a lane vehicle outside the footprint whose
\* axis is not green and whose unclamped step would put it inside the
\* footprint has, after the update, the progress it had before: neither the
\* gate nor the spacing clamp after it moves it.
C24_HoldAtStopLine ==
    ecall.op = "update" =>
        \A i \in UpdatedVehicles :
            (~AxisWasGreen(i) /\ StepEntersFootprint(i))
            => /\ entities[i].progress = ecall.pre[i].progress
               /\ entities[i].position = ecall.pre[i].position

\* a vehicle was held on the edge step (it would have landed exactly on the
\* stop line) while another vehicle of its lane was ahead of it
C24_Witness ==
    /\ ecall.op = "update"
    /\ \E i, j \in UpdatedVehicles :
          /\ ~AxisWasGreen(i)
          /\ StepEntersFootprint(i)
          /\ Abs(AxisCoord(ecall.pre[i])) - Travel(EffectiveSpeed(ecall.pre[i]), ecall.dt)
                = STOP_WORLD
          /\ ecall.pre[j].pathId = ecall.pre[i].pathId
          /\ ecall.pre[j].progress > ecall.pre[i].progress
          /\ entities[i].progress = ecall.pre[i].progress


\* the unit direction of a lane, from its end points
LaneDirection(lane) ==
    LET a == PATHS[lane + 1][1]
        b == PATHS[lane + 1][2]
    IN  IF a[1] = b[1]
        THEN <<0, 0, IF b[3] > a[3] THEN 1 ELSE -1>>
        ELSE <<IF b[1] > a[1] THEN 1 ELSE -1, 0, 0>>

\* the point of a lane at a progress: start + (end - start) * progress
LanePoint(lane, progress) ==
    LET a == PATHS[lane + 1][1]
        b == PATHS[lane + 1][2]
    IN  [k \in 1..3 |-> a[k] + ((b[k] - a[k]) * progress) \div pathLength]

\* C25 (cache invariant): right after a spawn that returned an id and right
\* after an update, every active lane vehicle's position is the point of
\* its lane at its progress and its heading is the lane's unit direction.
C25_CacheInvariant ==
    ((ecall.op = "spawn" /\ ecall.ret \notin {Null, Thrown}) \/ ecall.op = "update") =>
        \A i \in LaneVehicles(entities) :
            /\ entities[i].position = LanePoint(entities[i].pathId, entities[i].progress)
            /\ entities[i].dir = LaneDirection(entities[i].pathId)

\* an update moved a vehicle of the east-west lane and wrapped another
C25_Witness ==
    /\ ecall.op = "update"
    /\ \E i, j \in LaneVehicles(entities) :
          /\ entities[i].pathId = 6
          /\ entities[i].progress > ecall.pre[i].progress
          /\ entities[j].progress < ecall.pre[j].progress


\* C30 (no regression): after an update no lane vehicle is behind where it
\* was, except one whose candidate passed the lane's end, and that one only
\* by the wrap of one lane length; the gate and the clamp never move a
\* vehicle backwards.
C30_NoRegression ==
    ecall.op = "update" =>
        \A i \in UpdatedVehicles :
            \/ entities[i].progress >= ecall.pre[i].progress
            \/ /\ Candidate(i) > pathLength
               /\ entities[i].progress + pathLength >= ecall.pre[i].progress

\* an update held one vehicle at the stop line and clamped another behind a
\* vehicle its candidate would have passed
C30_Witness ==
    /\ ecall.op = "update"
    /\ \E i, j, k \in UpdatedVehicles :
          /\ ~AxisWasGreen(i)
          /\ StepEntersFootprint(i)
          /\ entities[i].progress = ecall.pre[i].progress
          /\ ecall.pre[k].pathId = ecall.pre[j].pathId
          /\ ecall.pre[k].progress > ecall.pre[j].progress
          /\ ecall.pre[k].progress - Candidate(j) < minSpacing
          /\ entities[j].progress >= ecall.pre[j].progress
          /\ entities[j].progress < Candidate(j)


(***************************************************************************)
(* Claims about single updates and endless runs of the controllers         *)
(***************************************************************************)
\* C29 (phase transition rule, 8-phase): an update moves the controller
\* from phase i to phase (i + 1) mod 8, with phaseElapsedMs 0, exactly when
\* phaseElapsedMs + dt reaches the duration of phase i; otherwise the phase
\* stays and phaseElapsedMs grows by dt.  One call advances one phase at
\* most, whatever dt is.
C29_PhaseTransitionRule ==
    (controller = "8-phase" /\ last8.calls = 1) =>
        IF last8.phaseElapsedMs + last8.dt >= PHASES[last8.phaseIndex + 1].durationSec * 1000
        THEN /\ phaseIndex = (last8.phaseIndex + 1) % 8
             /\ phaseElapsedMs = 0
        ELSE /\ phaseIndex = last8.phaseIndex
             /\ phaseElapsedMs = last8.phaseElapsedMs + last8.dt

\* an update whose dt spans several phases advanced one phase only, and the
\* wrap from the last phase to the first was taken with an overshoot
C29_Witness ==
    /\ controller = "8-phase"
    /\ last8.calls = 1
    /\ last8.phaseIndex = 7
    /\ phaseIndex = 0
    /\ phaseElapsedMs = 0
    /\ last8.phaseElapsedMs + last8.dt > EightPhaseCycleMs


\* C28 (non-negative countdown, two-phase): after any sequence of updates
\* the timer lies in [0, cycleLength] and getCountdownSecRounded() is not
\* negative.
C28_NonNegativeCountdown ==
    controller = "two-phase" =>
        /\ 0 <= timer
        /\ timer <= cycleLength
        /\ TwoPhaseCountdown(timer) >= 0


\* the last update entered phase p
Entered(p) ==
    /\ last8.calls = 1
    /\ last8.phaseIndex # p
    /\ phaseIndex = p

\* C26 (no terminal state, 8-phase): in an endless run of updates with
\* dt > 0 from NS_LEFT with elapsed 0, every one of the 8 phases is entered
\* infinitely often.
C26_NoTerminalStateEightPhase ==
    \A p \in 0..7 : []<>Entered(p)

\* the run has been through all 8 phases and has entered the first again
C26_Witness ==
    /\ controller = "8-phase"
    /\ Entered(0)
    /\ last8.phaseIndex = 7
    /\ sum8 >= 8000

\* C27 (no terminal state, two-phase): in an endless run of updates with
\* one fixed dt > 0, NS is green infinitely often and EW is green
\* infinitely often.
C27_NoTerminalStateTwoPhase ==
    /\ []<>(controller = "two-phase" /\ NSofTwoPhase = "green")
    /\ []<>(controller = "two-phase" /\ EWofTwoPhase = "green")


(***************************************************************************)
(* Claims about the order of the lane loop and about pedestrians           *)
(***************************************************************************)
\* the pairs of slots that held, before the last update, two vehicles of
\* one lane at exactly equal progress
TiedPairs ==
    {pr \in UpdatedVehicles \X UpdatedVehicles :
        /\ pr[1] # pr[2]
        /\ ecall.pre[pr[1]].pathId = ecall.pre[pr[2]].pathId
        /\ ecall.pre[pr[1]].progress = ecall.pre[pr[2]].progress}

\* C31 (deterministic tie-break), as stated: of two vehicles at exactly
\* equal progress the one with the smaller id is processed first, so it is
\* never the one that ends the update behind the other.
C31_TieBreakById ==
    ecall.op = "update" =>
        \A pr \in TiedPairs :
            ecall.pre[pr[1]].id[2] < ecall.pre[pr[2]].id[2]
            => entities[pr[1]].progress >= entities[pr[2]].progress

\* C31, amended: of two vehicles at exactly equal progress the one in the
\* lower pool slot is processed first (the sort is stable and the list is
\* filtered from the pool in slot order), so it never ends behind the other.
C31_TieBreakBySlot ==
    ecall.op = "update" =>
        \A pr \in TiedPairs :
            pr[1] < pr[2]
            => entities[pr[1]].progress >= entities[pr[2]].progress

\* an update separated two tied vehicles: the one processed first moved
\* freely, the other was clamped behind it, and the ids are in the opposite
\* order of the slots
C31_Witness ==
    /\ ecall.op = "update"
    /\ \E pr \in TiedPairs :
          /\ pr[1] < pr[2]
          /\ ecall.pre[pr[1]].id[2] > ecall.pre[pr[2]].id[2]
          /\ entities[pr[1]].progress > entities[pr[2]].progress


\* the slots that held an active pedestrian before the last update
UpdatedPedestrians ==
    {i \in 1..Len(ecall.pre) :
        ecall.pre[i].active /\ ecall.pre[i].type = "Pedestrian"}

\* whether a point lies in the square of half-width limit around the origin
InBox(pos, limit) ==
    /\ -limit <= pos[1] /\ pos[1] <= limit
    /\ -limit <= pos[3] /\ pos[3] <= limit

\* where the step of the last update would put the pedestrian of slot i
PedestrianStep(i) ==
    LET ent == ecall.pre[i]
        step == (ent.speed * ecall.dt) \div 1000
    IN  <<ent.position[1] + ent.dir[1] * step, ent.position[2],
          ent.position[3] + ent.dir[3] * step>>

\* C32 (pedestrian reflection, TrafficEngine.ts): after every update each
\* pedestrian that was active is still active with x and z in [-22, 22]; a
\* step that would leave the box leaves the position as it was and negates
\* the heading, any other step is taken with the heading kept.
C32_PedestrianReflection ==
    (ecall.op = "update" /\ rev \in {"engine_a", "engine_b"}) =>
        \A i \in UpdatedPedestrians :
            /\ entities[i].active
            /\ InBox(entities[i].position, 2200)
            /\ IF InBox(PedestrianStep(i), 2200)
               THEN /\ entities[i].position = PedestrianStep(i)
                    /\ entities[i].dir = ecall.pre[i].dir
               ELSE /\ entities[i].position = ecall.pre[i].position
                    /\ entities[i].dir = <<-ecall.pre[i].dir[1], 0, -ecall.pre[i].dir[3]>>

\* a pedestrian was turned round at the box and, in a later update, walked
\* back the way it came
C32_Witness ==
    /\ ecall.op = "update"
    /\ rev \in {"engine_a", "engine_b"}
    /\ \E i \in UpdatedPedestrians :
          /\ entities[i].position # ecall.pre[i].position
          /\ entities[i].dir # PedestrianStart(rev, [side4 |-> 0])[2]
          /\ entities[i].dir # PedestrianStart(rev, [side4 |-> 1])[2]

\* C33 (pedestrian despawn, part_001): after every update no active
\* pedestrian is beyond 25 in x or z; a pedestrian whose position after the
\* step is beyond that limit is inactive after the same update, so that the
\* pool has a free slot for the next spawn.
C33_PedestrianDespawn ==
    (ecall.op = "update" /\ rev = "part_001") =>
        /\ \A i \in 1..Len(entities) :
              (entities[i].active /\ entities[i].type = "Pedestrian")
              => InBox(entities[i].position, 2500)
        /\ \A i \in UpdatedPedestrians :
              ~InBox(entities[i].position, 2500)
              => /\ ~entities[i].active
                 /\ FirstInactive(entities) \in 1..i

\* an update took a pedestrian beyond the limit out of the pool
C33_Witness ==
    /\ ecall.op = "update"
    /\ rev = "part_001"
    /\ \E i \in UpdatedPedestrians :
          /\ ~InBox(entities[i].position, 2500)
          /\ ~entities[i].active

\* a spawn reused the slot of a pedestrian that had walked out of the world
C33_SlotReused ==
    /\ ecall.op = "spawn"
    /\ rev = "part_001"
    /\ \E i \in 1..Len(entities) :
          /\ ~ecall.pre[i].active
          /\ ~InBox(ecall.pre[i].position, 2500)
          /\ entities[i].active
          /\ ecall.ret = entities[i].id


\* what C34 asks of one pedestrian head: light is the axis phase of the
\* frame, t the time the head's timer has counted since the green began
WalkTimerRule(phase, t, light) ==
    CASE light = "green" -> phase = (IF t <= walkTime THEN "walk" ELSE "flash")
      [] light = "yellow" -> phase = "flash"
      [] OTHER -> phase = "dont"

\* C34 (walk timer, PedestrianSignals): after every frame of hook_b a
\* pedestrian head is 'walk' during the first walkTime (4000 ms) of its
\* axis' green and 'flash' for the rest of that green, 'flash' during
\* yellow and 'dont' during red.
C34_WalkTimer ==
    (driver = "hook_b" /\ ecall.op = "update") =>
        /\ WalkTimerRule(pedSignals.pedNS, pedSignals.nsTimer, published.NS)
        /\ WalkTimerRule(pedSignals.pedEW, pedSignals.ewTimer, published.EW)


(***************************************************************************)
(* Frame conditions of spawn and update                                    *)
(***************************************************************************)
\* C35 (spawn frame): a spawn that returns an id has activated exactly one
\* slot, which was inactive before the call and now carries the returned
\* id; the number of active actors has grown by one and every other slot
\* is as it was.
C35_SpawnFrame ==
    (ecall.op = "spawn" /\ ecall.ret \notin {Null, Thrown}) =>
        /\ Len(entities) = Len(ecall.pre)
        /\ Cardinality(ActiveSlots(entities)) = Cardinality(ActiveSlots(ecall.pre)) + 1
        /\ \E i \in 1..Len(entities) :
              /\ ~ecall.pre[i].active
              /\ entities[i].active
              /\ entities[i].id = ecall.ret
              /\ \A j \in 1..Len(entities) : j # i => entities[j] = ecall.pre[j]

\* a spawn filled the last free slot of a pool that already held an actor
\* with another id, and left that actor as it was
C35_Witness ==
    /\ ecall.op = "spawn"
    /\ ecall.ret \notin {Null, Thrown}
    /\ ActiveSlots(entities) = 1..Len(entities)
    /\ \E j \in 1..Len(entities) :
          /\ ecall.pre[j].active
          /\ entities[j] = ecall.pre[j]
          /\ entities[j].id # ecall.ret


\* the fields of a slot that are set at spawn
Identity(ent) ==
    [id |-> ent.id, type |-> ent.type, pathId |-> ent.pathId,
     speed |-> ent.speed, scale |-> ent.scale, color |-> ent.color]

\* C36 (update frame): update leaves id, type, pathId, speed, scale and
\* color of every slot as they were, leaves every slot that was inactive
\* untouched and activates none; of the active slots it changes progress,
\* position and heading only, and it deactivates pedestrians only.
C36_UpdateFrame ==
    ecall.op = "update" =>
        /\ Len(entities) = Len(ecall.pre)
        /\ \A i \in 1..Len(entities) :
              /\ Identity(entities[i]) = Identity(ecall.pre[i])
              /\ ~ecall.pre[i].active => entities[i] = ecall.pre[i]
              /\ (ecall.pre[i].active /\ ~entities[i].active)
                 => entities[i].type = "Pedestrian"

\* an update moved an active actor next to a free slot that still holds
\* the fields of a despawned actor
C36_Witness ==
    /\ ecall.op = "update"
    /\ \E i, j \in 1..Len(entities) :
          /\ ecall.pre[i].active
          /\ entities[i].position # ecall.pre[i].position
          /\ ~ecall.pre[j].active
          /\ ecall.pre[j].id[1] = "id"


(***************************************************************************)
(* Claims about the 8-phase controller's elapsed time and the published    *)
(* state                                                                   *)
(***************************************************************************)
\* C38 (elapsed-time invariant, 8-phase): after every update
\* 0 <= phaseElapsedMs < duration of the current phase, so the time left in
\* the phase is strictly positive.
C38_ElapsedInvariant ==
    controller = "8-phase" =>
        /\ 0 <= phaseElapsedMs
        /\ phaseElapsedMs < PHASES[phaseIndex + 1].durationSec * 1000

\* an update stopped one millisecond-grid step short of the end of the
\* longest phase
C38_Witness ==
    /\ controller = "8-phase"
    /\ last8.calls = 1
    /\ phaseIndex = 1
    /\ phaseElapsedMs + 1000 >= PHASES[2].durationSec * 1000


\* C39 (published-state consistency, utils.ts driver): in every published
\* state a pedestrian head shows walk only while its axis ball is green and
\* a left arrow is green only while its axis ball is green, whatever
\* forceLightPhase is.
C39_PublishedConsistency ==
    driver = "utils" =>
        /\ published.pedNS = "walk" => published.NS = "green"
        /\ published.pedEW = "walk" => published.EW = "green"
        /\ published.NSLeft = "green" => published.NS = "green"
        /\ published.EWLeft = "green" => published.EW = "green"


(***************************************************************************)
(* Liveness of the lane vehicles under the tick driver                     *)
(***************************************************************************)
\* slot i holds an active lane vehicle
IsLaneVehicle(i) ==
    /\ i <= Len(entities)
    /\ entities[i].active
    /\ entities[i].type # "Pedestrian"

\* the last step was a frame that changed the progress of slot i
Advanced(i) ==
    /\ ecall.op = "update"
    /\ i <= Len(ecall.pre)
    /\ ecall.pre[i].active
    /\ entities[i].progress # ecall.pre[i].progress

\* the last step was the effect: reset() ended every vehicle and the spawn
\* calls made new ones
Repopulated == ecall.op = "populate"

\* C37 (no vehicle is stuck forever): in an endless run of frames of a
\* fixed dt with steps shorter than the footprint, under the 8-phase
\* controller and the part_001 engine, the progress of every active lane
\* vehicle changes again and again: at any time, the slot later changes its
\* progress in a frame, or holds no active lane vehicle, or is given a new
\* vehicle by the effect.
C37_NoVehicleStuck ==
    \A i \in 1..MaxEntities :
        []<>(Advanced(i) \/ ~IsLaneVehicle(i) \/ Repopulated)

\* the frame in which the cycle wrapped round to the north-south green let
\* a vehicle step off the stop line onto the footprint's edge
C37_Witness ==
    /\ ecall.op = "update"
    /\ last8.phaseIndex = 7
    /\ phaseIndex = 0
    /\ \E i \in UpdatedVehicles :
          /\ ecall.pre[i].pathId < 4
          /\ StepEntersFootprint(i)
          /\ entities[i].progress = Candidate(i)

=============================================================================
